---- MODULE Spec2Model ----
(***************************************************************************)
(* ChargePal: the record reconciliation engine (services/utils.ts,         *)
(* recalculateRecords) and the Supabase sync (services/storageService.ts,  *)
(* syncWithSupabase).                                                      *)
(*                                                                         *)
(* Number representation.  A JavaScript value that may be a non-finite or  *)
(* absent number (totalCost and the five derived fields) is a record       *)
(* [k, v]: k is "number" (finite, value v), "NaN", "Infinity" or           *)
(* "undefined" (also standing for null, which behaves the same in every    *)
(* expression modelled here).  Decimal quantities (totalCost,              *)
(* energyCharged, pricePerKwh, theoreticalEnergy, efficiencyLossPct,       *)
(* energyConsumption) are integers counting thousandths; odometer,         *)
(* distanceDriven, SoC, batteryCapacity and durationMinutes are whole      *)
(* numbers.  Instants are whole ticks of MsPerTick milliseconds; NoTime     *)
(* stands for an absent (undefined or empty) time string.  toFixed(2) is   *)
(* exact decimal rounding, ties away from zero.                            *)
(***************************************************************************)
EXTENDS Integers, Sequences, FiniteSets, TLC

VARIABLES
    records,     \* recalc: the caller's input list R
    vehicles,    \* recalc: the vehicle list V
    result,      \* recalc: outcome of recalculateRecords(R, V)
    result2,     \* recalc: outcome of recalculateRecords(result, V)
    resultP,     \* recalc: outcome of recalculateRecords(P, V), P a permutation of R
    shuffle,     \* recalc: the permutation P that was used
    pc,          \* recalc: position of the caller
    config,        \* sync: the SupabaseConfig argument
    localState,    \* sync: the AppState argument
    cloudVehicles, \* sync: rows of the remote table vehicles
    cloudRecords,  \* sync: rows of the remote table charging_records
    ops,           \* sync: the remote operations issued so far, in order
    spc,           \* sync: position of syncWithSupabase
    frame,         \* sync: the locals of syncWithSupabase that live across awaits
    syncResult,    \* sync: the value syncWithSupabase resolved with
    now,           \* sync: Date.now() as the call in progress read it
    remote0,       \* sync: the remote tables when the call, or the call it retries, was made
    state,            \* app: the AppState held by App
    isSyncing,        \* app: App's isSyncing flag (and isSyncingRef)
    settingsSyncing,  \* app: the isSyncing flag of the Settings component
    caller,           \* app: the entry point whose call the sync variables follow
    pending,          \* app: calls in flight whose first request is not yet served
    importing,        \* app: the closure of a CSV import whose file is being read
    clock,            \* app: the value of Date.now()
    events,           \* app: number of user and timer events handled so far
    devices           \* devices: the states of two devices that share the remote store, and whose call is in progress

recalcVars == <<records, vehicles, result, result2, resultP, shuffle, pc>>

syncVars == <<config, localState, cloudVehicles, cloudRecords, ops, spc, frame, syncResult, now, remote0>>

appVars == <<state, isSyncing, settingsSyncing, caller, pending, importing, clock, events, devices>>

vars == <<records, vehicles, result, result2, resultP, shuffle, pc, config, localState, cloudVehicles, cloudRecords, ops, spc, frame, syncResult, now, remote0, state, isSyncing, settingsSyncing, caller, pending, importing, clock, events, devices>>

----------------------------------------------------------------------------
(* Bounds and units *)

MaxRecords == 3

Milli == 1000
MsPerTick == 30000
MsPerMinute == 60000
NoTime == -1

----------------------------------------------------------------------------
(* JavaScript values *)

Num(v) == [k |-> "number", v |-> v]
NaN == [k |-> "NaN", v |-> 0]
Infinity == [k |-> "Infinity", v |-> 0]
undefined == [k |-> "undefined", v |-> 0]

typeofNumber(x) == x.k \in {"number", "NaN", "Infinity"}
isNaN(x) == x.k \in {"NaN", "undefined"}
isFinite(x) == x.k = "number"

\* a string value that may be absent: its characters, one per element
Str(chars) == [k |-> "string", s |-> chars]
NoStr == [k |-> "undefined", s |-> <<>>]

\* !x for a string-or-undefined value
falsy(x) == x.k = "undefined" \/ x.s = <<>>

\* String.prototype.trim
RECURSIVE trimStart(_)
trimStart(chars) ==
    IF chars # <<>> /\ Head(chars) = " " THEN trimStart(Tail(chars)) ELSE chars

RECURSIVE trimEnd(_)
trimEnd(chars) ==
    IF chars # <<>> /\ chars[Len(chars)] = " "
    THEN trimEnd(SubSeq(chars, 1, Len(chars) - 1)) ELSE chars

trim(chars) == trimEnd(trimStart(chars))

Max(a, b) == IF a >= b THEN a ELSE b

\* n / d rounded to the nearest integer, ties away from zero (d > 0)
RoundDiv(n, d) ==
    IF n >= 0 THEN (2 * n + d) \div (2 * d)
              ELSE -((2 * (-n) + d) \div (2 * d))

\* parseFloat((num / den).toFixed(2)), in thousandths
toFixed2(num, den) ==
    IF den % 100 = 0 THEN 10 * RoundDiv(num, den \div 100)
                     ELSE 10 * RoundDiv(100 * num, den)

\* Math.round(num / den): nearest integer, ties towards +Infinity (den > 0)
MathRound(num, den) == (2 * num + den) \div (2 * den)

----------------------------------------------------------------------------
(* services/utils.ts *)

\* calculateDuration, had Math.max(0, ...) been left out
calculateDurationUnclamped(start, end) ==
    LET diff == (end - start) * MsPerTick
    IN  MathRound(diff, MsPerMinute)

calculateDuration(start, end) ==
    LET diff == (end - start) * MsPerTick
    IN  Max(0, MathRound(diff, MsPerMinute))

calculateTheoreticalEnergy(capacity, startSoC, endSoC) ==
    toFixed2(capacity * (endSoC - startSoC), 100)

\* the keys of vehicleGroups in for-in order: first occurrence in the input
RECURSIVE groupKeys(_)
groupKeys(rs) ==
    IF rs = <<>> THEN <<>>
    ELSE LET init == SubSeq(rs, 1, Len(rs) - 1)
             last == rs[Len(rs)]
             ks == groupKeys(init)
         IN  IF \E i \in 1..Len(ks) : ks[i] = last.vehicleId
             THEN ks ELSE Append(ks, last.vehicleId)

vehicleGroups(rs, vehicleId) ==
    SelectSeq(rs, LAMBDA r : r.vehicleId = vehicleId)

\* capacityOf, had a record without a vehicle been given a capacity of 60
capacityOfAssumed(vs, vehicleId) ==
    IF \E i \in 1..Len(vs) : vs[i].id = vehicleId
    THEN LET i == CHOOSE i \in 1..Len(vs) :
                     /\ vs[i].id = vehicleId
                     /\ \A j \in 1..(i - 1) : vs[j].id # vehicleId
         IN  vs[i].batteryCapacity
    ELSE 60

\* vehicles.find(v => v.id === vehicleId)?.batteryCapacity || 0
capacityOf(vs, vehicleId) ==
    IF \E i \in 1..Len(vs) : vs[i].id = vehicleId
    THEN LET i == CHOOSE i \in 1..Len(vs) :
                     /\ vs[i].id = vehicleId
                     /\ \A j \in 1..(i - 1) : vs[j].id # vehicleId
         IN  vs[i].batteryCapacity
    ELSE 0

\* sorted, had the sort been left out
sortedUnsorted(group) == group

\* Array.prototype.sort with (a, b) => a.startTime - b.startTime: stable
RECURSIVE sorted(_)
sorted(group) ==
    IF group = <<>> THEN <<>>
    ELSE LET init == sorted(SubSeq(group, 1, Len(group) - 1))
             x == group[Len(group)]
             n == Cardinality({i \in 1..Len(init) : init[i].startTime - x.startTime <= 0})
         IN  SubSeq(init, 1, n) \o <<x>> \o SubSeq(init, n + 1, Len(init))

\* 1. Repair Total Cost; threw: TypeError from toFixed on a non-number
repairTotalCost(current) ==
    LET totalCost == current.totalCost
    IN  IF /\ (~typeofNumber(totalCost) \/ isNaN(totalCost)
                 \/ (totalCost.k = "number" /\ totalCost.v = 0))
           /\ current.energyCharged > 0
           /\ current.pricePerKwh > 0
        THEN [threw |-> FALSE,
              value |-> Num(toFixed2(current.energyCharged * current.pricePerKwh,
                                     Milli * Milli))]
        ELSE IF ~typeofNumber(totalCost)
             THEN [threw |-> TRUE, value |-> undefined]
             ELSE IF totalCost.k = "number"
                  THEN [threw |-> FALSE, value |-> Num(toFixed2(totalCost.v, Milli))]
                  ELSE [threw |-> FALSE, value |-> totalCost]

\* 2. Recalculate Duration if times are present
recalcDuration(current) ==
    IF current.startTime # NoTime /\ current.endTime # NoTime
    THEN Num(calculateDuration(current.startTime, current.endTime))
    ELSE current.durationMinutes

\* recalcTheoreticalEnergy, had a level state of charge been left alone
recalcTheoreticalEnergyStrict(current, capacity) ==
    IF capacity > 0 /\ current.endSoC > current.startSoC
    THEN Num(calculateTheoreticalEnergy(capacity, current.startSoC, current.endSoC))
    ELSE current.theoreticalEnergy

\* 3. Recalculate Theoretical Energy & Efficiency
recalcTheoreticalEnergy(current, capacity) ==
    IF capacity > 0 /\ current.endSoC >= current.startSoC
    THEN Num(calculateTheoreticalEnergy(capacity, current.startSoC, current.endSoC))
    ELSE current.theoreticalEnergy

recalcEfficiencyLossPct(current, capacity) ==
    IF capacity > 0 /\ current.endSoC >= current.startSoC
    THEN LET theoreticalEnergy ==
                 calculateTheoreticalEnergy(capacity, current.startSoC, current.endSoC)
         IN  IF current.energyCharged > 0
             THEN Num(toFixed2(100 * (current.energyCharged - theoreticalEnergy),
                               current.energyCharged))
             ELSE Num(0)
    ELSE current.efficiencyLossPct

\* recalcDistanceDriven, had Math.max(0, ...) been left out
recalcDistanceDrivenUnclamped(current, prev) ==
    current.odometer - prev.odometer

\* 4. Recalculate Distance Driven (prev exists)
recalcDistanceDriven(current, prev) ==
    Max(0, current.odometer - prev.odometer)

recalcEnergyConsumption(current, prev, capacity) ==
    LET distanceDriven == recalcDistanceDriven(current, prev)
        socUsed == prev.endSoC - current.startSoC
    IN  IF distanceDriven > 0 /\ socUsed > 0 /\ capacity > 0
        THEN toFixed2((capacity * socUsed) * 100, 100 * distanceDriven)
        ELSE 0

\* firstDistanceDriven, had the first record been given its odometer reading
firstDistanceDrivenOdometer(current) == current.odometer

\* 4. else branch: the first record of a timeline (prev is null)
firstDistanceDriven(current) == 0

firstEnergyConsumption(current) == 0

\* pushed, had the copy also stamped the record as updated
pushedStamped(current, totalCost, durationMinutes, distanceDriven, energyConsumption, theoreticalEnergy, efficiencyLossPct) ==
    [current EXCEPT !.totalCost = totalCost,
                    !.durationMinutes = durationMinutes,
                    !.distanceDriven = distanceDriven,
                    !.energyConsumption = energyConsumption,
                    !.theoreticalEnergy = theoreticalEnergy,
                    !.efficiencyLossPct = efficiencyLossPct,
                    !.updatedAt = current.updatedAt + 1]

\* result.push({...current, totalCost, durationMinutes, ...})
pushed(current, totalCost, durationMinutes, distanceDriven, energyConsumption, theoreticalEnergy, efficiencyLossPct) ==
    [current EXCEPT !.totalCost = totalCost,
                    !.durationMinutes = durationMinutes,
                    !.distanceDriven = distanceDriven,
                    !.energyConsumption = energyConsumption,
                    !.theoreticalEnergy = theoreticalEnergy,
                    !.efficiencyLossPct = efficiencyLossPct]

\* the divisors of the divisions executed while a timeline is processed
divisors(srt, capacity) ==
    {100, MsPerMinute}
    \cup {srt[i].energyCharged : i \in {j \in 1..Len(srt) :
              /\ capacity > 0
              /\ srt[j].endSoC >= srt[j].startSoC
              /\ srt[j].energyCharged > 0}}
    \cup {recalcDistanceDriven(srt[i], srt[i - 1]) : i \in {j \in 2..Len(srt) :
              /\ recalcDistanceDriven(srt[j], srt[j - 1]) > 0
              /\ srt[j - 1].endSoC - srt[j].startSoC > 0
              /\ capacity > 0}}

\* prevOf, had the timeline's first record been taken
prevOfFirst(srt, i) == srt[1]

\* prev = i > 0 ? sorted[i - 1] : null, for i > 0 (positions count from 1 here)
prevOf(srt, i) == srt[i - 1]

\* the body of the inner loop for sorted[i]
processRecord(srt, i, capacity) ==
    LET current == srt[i]
    IN  pushed(current,
               repairTotalCost(current).value,
               recalcDuration(current),
               IF i > 1 THEN Num(recalcDistanceDriven(current, prevOf(srt, i)))
                        ELSE Num(firstDistanceDriven(current)),
               IF i > 1 THEN Num(recalcEnergyConsumption(current, prevOf(srt, i), capacity))
                        ELSE Num(firstEnergyConsumption(current)),
               recalcTheoreticalEnergy(current, capacity),
               recalcEfficiencyLossPct(current, capacity))

\* the records pushed for one vehicle's timeline
processGroup(rs, vs, vehicleId) ==
    LET capacity == capacityOf(vs, vehicleId)
        srt == sorted(vehicleGroups(rs, vehicleId))
    IN  [i \in 1..Len(srt) |-> processRecord(srt, i, capacity)]

RECURSIVE concatGroups(_, _, _)
concatGroups(rs, vs, keys) ==
    IF keys = <<>> THEN <<>>
    ELSE concatGroups(rs, vs, SubSeq(keys, 1, Len(keys) - 1))
             \o processGroup(rs, vs, keys[Len(keys)])

\* the call either throws (threw, no value) or returns the result list
recalculateRecords(rs, vs) ==
    IF \E i \in 1..Len(rs) : repairTotalCost(rs[i]).threw
    THEN [threw |-> TRUE, value |-> <<>>]
    ELSE [threw |-> FALSE, value |-> concatGroups(rs, vs, groupKeys(rs))]

----------------------------------------------------------------------------
(* services/storageService.ts: syncWithSupabase *)

\* Date.now() at the start of the first sync; later than every stored timestamp
Now == 50

\* the ids generateId() returns, by the row the id is minted for
MintedIds == <<"g1", "g2", "g3", "g4", "g5", "g6">>

null == [k |-> "null", v |-> 0]

\* a number as the request body carries it: JSON has no NaN, Infinity, undefined
jsonNumber(x) == IF x.k = "number" THEN x ELSE null

\* Number(column) on a pulled numeric column
NumberOf(x) == IF x.k = "null" THEN Num(0) ELSE x

\* configMissing, had only the key been checked
configMissingKeyOnly(cfg) == cfg.apiKey = ""

\* !config.apiKey || !config.projectUrl
configMissing(cfg) == cfg.apiKey = "" \/ cfg.projectUrl = ""

\* vehiclesWithoutPlate, had the plate not been trimmed
vehiclesWithoutPlateUntrimmed(ls) ==
    SelectSeq(ls.vehicles, LAMBDA v : falsy(v.licensePlate))

\* localState.vehicles.filter(v => !v.licensePlate || v.licensePlate.trim() === '')
vehiclesWithoutPlate(ls) ==
    SelectSeq(ls.vehicles, LAMBDA v : falsy(v.licensePlate) \/ trim(v.licensePlate.s) = <<>>)

\* Number(cloudMap.get(key)): the updatedAt of the last row with that key, NaN if none
cloudTimeOf(meta, key) ==
    IF \E i \in 1..Len(meta) : meta[i].key = key
    THEN LET i == CHOOSE i \in 1..Len(meta) :
                     /\ meta[i].key = key
                     /\ \A j \in (i + 1)..Len(meta) : meta[j].key # key
         IN  Num(meta[i].updatedAt)
    ELSE NaN

\* !cloudTime || (x.updatedAt || 0) > cloudTime
newerThanCloud(updatedAt, cloudTime) ==
    \/ cloudTime.k = "NaN"
    \/ cloudTime.v = 0
    \/ updatedAt > cloudTime.v

vehiclesToPush(ls, meta) ==
    SelectSeq(ls.vehicles, LAMBDA v :
        /\ ~falsy(v.licensePlate)
        /\ newerThanCloud(v.updatedAt, cloudTimeOf(meta, v.licensePlate.s)))

\* vehiclePayload, had every pushed vehicle been stamped with the time of the call
vehiclePayloadStamped(vs, t) ==
    [i \in 1..Len(vs) |->
        [licensePlate |-> vs[i].licensePlate.s,
         name |-> vs[i].name,
         batteryCapacity |-> vs[i].batteryCapacity,
         initialOdometer |-> vs[i].initialOdometer,
         updatedAt |-> t]]

\* the rows for the vehicles vs, in a call that read Date.now() as t
vehiclePayload(vs, t) ==
    [i \in 1..Len(vs) |->
        [licensePlate |-> vs[i].licensePlate.s,
         name |-> vs[i].name,
         batteryCapacity |-> vs[i].batteryCapacity,
         initialOdometer |-> vs[i].initialOdometer,
         updatedAt |-> IF vs[i].updatedAt # 0 THEN vs[i].updatedAt ELSE t]]

recordsToPush(ls, meta) ==
    SelectSeq(ls.records, LAMBDA r : newerThanCloud(r.updatedAt, cloudTimeOf(meta, r.id)))

\* localState.vehicles.find(v => v.id === r.vehicleId) exists and has a plate
hasPlatedVehicle(ls, vehicleId) ==
    /\ \E i \in 1..Len(ls.vehicles) : ls.vehicles[i].id = vehicleId
    /\ LET i == CHOOSE i \in 1..Len(ls.vehicles) :
                    /\ ls.vehicles[i].id = vehicleId
                    /\ \A j \in 1..(i - 1) : ls.vehicles[j].id # vehicleId
       IN  ~falsy(ls.vehicles[i].licensePlate)

plateOfVehicle(ls, vehicleId) ==
    LET i == CHOOSE i \in 1..Len(ls.vehicles) :
                 /\ ls.vehicles[i].id = vehicleId
                 /\ \A j \in 1..(i - 1) : ls.vehicles[j].id # vehicleId
    IN  ls.vehicles[i].licensePlate.s

recordRow(r, licensePlate) ==
    [id |-> r.id, licensePlate |-> licensePlate, odometer |-> r.odometer,
     startTime |-> r.startTime, endTime |-> r.endTime,
     startSoC |-> r.startSoC, endSoC |-> r.endSoC,
     pricePerKwh |-> r.pricePerKwh, type |-> r.type,
     energyCharged |-> r.energyCharged, totalCost |-> jsonNumber(r.totalCost),
     createdAt |-> r.createdAt, updatedAt |-> r.updatedAt,
     efficiencyLossPct |-> jsonNumber(r.efficiencyLossPct),
     durationMinutes |-> jsonNumber(r.durationMinutes),
     theoreticalEnergy |-> jsonNumber(r.theoreticalEnergy),
     distanceDriven |-> jsonNumber(r.distanceDriven),
     energyConsumption |-> jsonNumber(r.energyConsumption)]

recordPayload(ls, rs) ==
    LET kept == SelectSeq(rs, LAMBDA r : hasPlatedVehicle(ls, r.vehicleId))
    IN  [i \in 1..Len(kept) |-> recordRow(kept[i], plateOfVehicle(ls, kept[i].vehicleId))]

\* the remote store's upsert: a row replaces the row with its key, or is added
RECURSIVE upsert(_, _, _)
upsert(table, payload, key) ==
    IF payload = <<>> THEN table
    ELSE LET row == Head(payload)
             t == IF \E i \in 1..Len(table) : table[i][key] = row[key]
                  THEN [i \in 1..Len(table) |->
                           IF table[i][key] = row[key] THEN row ELSE table[i]]
                  ELSE Append(table, row)
         IN  upsert(t, Tail(payload), key)

\* two rows of one upsert have the same key: the remote store rejects the
\* command (a row of the keyed table cannot be affected twice)
affectsRowTwice(payload, key) ==
    \E i, j \in 1..Len(payload) : i # j /\ payload[i][key] = payload[j][key]

\* the remote store's delete().in('id', ids)
deleteIn(table, ids) ==
    SelectSeq(table, LAMBDA row : \A i \in 1..Len(ids) : ids[i] # row.id)

\* localVehicleMap.get(plate): the last local vehicle whose (licensePlate || '') is plate
hasLocalMatch(ls, plate) ==
    \E i \in 1..Len(ls.vehicles) :
        (IF falsy(ls.vehicles[i].licensePlate) THEN <<>> ELSE ls.vehicles[i].licensePlate.s) = plate

localMatch(ls, plate) ==
    LET hit(i) == (IF falsy(ls.vehicles[i].licensePlate) THEN <<>>
                   ELSE ls.vehicles[i].licensePlate.s) = plate
        i == CHOOSE i \in 1..Len(ls.vehicles) :
                 hit(i) /\ \A j \in (i + 1)..Len(ls.vehicles) : ~hit(j)
    IN  ls.vehicles[i]

\* mergedVehicles, had a matched vehicle kept its local name
mergedVehiclesLocalName(ls, cvs) ==
    [i \in 1..Len(cvs) |->
        [id |-> IF hasLocalMatch(ls, cvs[i].licensePlate)
                THEN localMatch(ls, cvs[i].licensePlate).id
                ELSE MintedIds[i],
         name |-> IF hasLocalMatch(ls, cvs[i].licensePlate)
                  THEN localMatch(ls, cvs[i].licensePlate).name
                  ELSE cvs[i].name,
         batteryCapacity |-> cvs[i].batteryCapacity,
         licensePlate |-> Str(cvs[i].licensePlate),
         initialOdometer |-> cvs[i].initialOdometer,
         updatedAt |-> cvs[i].updatedAt]]

\* 3.1 Merge Vehicles
mergedVehicles(ls, cvs) ==
    [i \in 1..Len(cvs) |->
        [id |-> IF hasLocalMatch(ls, cvs[i].licensePlate)
                THEN localMatch(ls, cvs[i].licensePlate).id
                ELSE MintedIds[i],
         name |-> cvs[i].name,
         batteryCapacity |-> cvs[i].batteryCapacity,
         licensePlate |-> Str(cvs[i].licensePlate),
         initialOdometer |-> cvs[i].initialOdometer,
         updatedAt |-> cvs[i].updatedAt]]

\* plateToLocalIdMap.get(plate): the id set for the last merged vehicle with that plate
hasLocalId(mvs, plate) == \E i \in 1..Len(mvs) : mvs[i].licensePlate.s = plate

\* plateToLocalId, had every record been given to the first merged vehicle
plateToLocalIdFirst(mvs, plate) ==
    mvs[1].id

plateToLocalId(mvs, plate) ==
    LET i == CHOOSE i \in 1..Len(mvs) :
                 /\ mvs[i].licensePlate.s = plate
                 /\ \A j \in (i + 1)..Len(mvs) : mvs[j].licensePlate.s # plate
    IN  mvs[i].id

\* mergedRecords, had the derived columns of the row been copied
mergedRecordsWithDerived(mvs, crs) ==
    LET kept == SelectSeq(crs, LAMBDA cr : hasLocalId(mvs, cr.licensePlate))
    IN  [i \in 1..Len(kept) |->
            [id |-> kept[i].id,
             vehicleId |-> plateToLocalId(mvs, kept[i].licensePlate),
             odometer |-> kept[i].odometer,
             startTime |-> kept[i].startTime, endTime |-> kept[i].endTime,
             startSoC |-> kept[i].startSoC, endSoC |-> kept[i].endSoC,
             pricePerKwh |-> kept[i].pricePerKwh, type |-> kept[i].type,
             energyCharged |-> kept[i].energyCharged,
             totalCost |-> NumberOf(kept[i].totalCost),
             createdAt |-> kept[i].createdAt, updatedAt |-> kept[i].updatedAt,
             durationMinutes |-> NumberOf(kept[i].durationMinutes),
             theoreticalEnergy |-> NumberOf(kept[i].theoreticalEnergy),
             efficiencyLossPct |-> NumberOf(kept[i].efficiencyLossPct),
             distanceDriven |-> NumberOf(kept[i].distanceDriven),
             energyConsumption |-> NumberOf(kept[i].energyConsumption)]]

\* 3.2 Merge Records: the derived fields of the row are not copied
mergedRecords(mvs, crs) ==
    LET kept == SelectSeq(crs, LAMBDA cr : hasLocalId(mvs, cr.licensePlate))
    IN  [i \in 1..Len(kept) |->
            [id |-> kept[i].id,
             vehicleId |-> plateToLocalId(mvs, kept[i].licensePlate),
             odometer |-> kept[i].odometer,
             startTime |-> kept[i].startTime, endTime |-> kept[i].endTime,
             startSoC |-> kept[i].startSoC, endSoC |-> kept[i].endSoC,
             pricePerKwh |-> kept[i].pricePerKwh, type |-> kept[i].type,
             energyCharged |-> kept[i].energyCharged,
             totalCost |-> NumberOf(kept[i].totalCost),
             createdAt |-> kept[i].createdAt, updatedAt |-> kept[i].updatedAt,
             durationMinutes |-> undefined, theoreticalEnergy |-> undefined,
             efficiencyLossPct |-> undefined, distanceDriven |-> undefined,
             energyConsumption |-> undefined]]

metaOf(table, key) ==
    [i \in 1..Len(table) |-> [key |-> table[i][key], updatedAt |-> table[i].updatedAt]]

NoData == [vehicles |-> <<>>, records |-> <<>>, deletedRecordIds |-> <<>>, deletedVehicleIds |-> <<>>]

NotReturned == [returned |-> FALSE, success |-> FALSE, message |-> "", hasData |-> FALSE, data |-> NoData]

failure(message) ==
    [returned |-> TRUE, success |-> FALSE, message |-> message, hasData |-> FALSE, data |-> NoData]

NoFrame == [cloudVehiclesMeta |-> <<>>, cloudRecordsMeta |-> <<>>, fetchedVehicles |-> <<>>]

\* a remote operation: the keys of the rows sent, or the columns selected
Op(op, table, keys) == [op |-> op, table |-> table, keys |-> keys]

SyncIdle ==
    /\ config = [projectUrl |-> "", apiKey |-> ""]
    /\ localState = [vehicles |-> <<>>, records |-> <<>>, deletedRecordIds |-> <<>>, deletedVehicleIds |-> <<>>]
    /\ cloudVehicles = <<>>
    /\ cloudRecords = <<>>
    /\ ops = <<>>
    /\ spc = "idle"
    /\ frame = NoFrame
    /\ syncResult = NotReturned
    /\ now = Now
    /\ remote0 = [vehicles |-> <<>>, records |-> <<>>]

\* App.tsx before loadState: the initial useState values
NoSupabaseConfig == [projectUrl |-> "", apiKey |-> "", autoSync |-> FALSE, lastSync |-> 0]

DEFAULT_STATE ==
    [vehicles |-> <<>>, records |-> <<>>, deletedRecordIds |-> <<>>,
     deletedVehicleIds |-> <<>>, supabaseConfig |-> NoSupabaseConfig]

NoImport == [reading |-> FALSE, records |-> <<>>, vehicles |-> <<>>]

NoDevices ==
    [states |-> [A |-> NoData, B |-> NoData], syncing |-> "none", events |-> 0]

AppIdle ==
    /\ state = DEFAULT_STATE
    /\ isSyncing = FALSE
    /\ settingsSyncing = FALSE
    /\ caller = "none"
    /\ pending = <<>>
    /\ importing = NoImport
    /\ clock = 0
    /\ events = 0
    /\ devices = NoDevices

\* the call up to its first await: the two pre-checks, then the first request
SyncCall ==
    /\ spc = "idle"
    /\ IF configMissing(config)
       THEN syncResult' = failure("ConfigMissing") /\ spc' = "returned"
       ELSE IF vehiclesWithoutPlate(localState) # <<>>
            THEN syncResult' = failure("MissingPlate") /\ spc' = "returned"
            ELSE /\ spc' = IF localState.deletedRecordIds # <<>>
                           THEN "deleteRecords" ELSE "upsertUser"
                 /\ UNCHANGED syncResult
    /\ UNCHANGED <<config, localState, cloudVehicles, cloudRecords, ops, frame>>
    /\ UNCHANGED <<now, remote0>>
    /\ UNCHANGED recalcVars
    /\ UNCHANGED appVars

\* STEP 0: delete the queued records
DeleteRecords ==
    /\ spc = "deleteRecords"
    /\ ops' = Append(ops, Op("delete", "charging_records", localState.deletedRecordIds))
    /\ \E ok \in BOOLEAN :
           IF ok
           THEN /\ cloudRecords' = deleteIn(cloudRecords, localState.deletedRecordIds)
                /\ spc' = "upsertUser"
                /\ UNCHANGED syncResult
           ELSE /\ syncResult' = failure("DeleteRecordsFailed")
                /\ spc' = "returned"
                /\ UNCHANGED cloudRecords
    /\ UNCHANGED <<config, localState, cloudVehicles, frame>>
    /\ UNCHANGED <<now, remote0>>
    /\ UNCHANGED recalcVars
    /\ UNCHANGED appVars

\* 1.1 Users
UpsertUser ==
    /\ spc = "upsertUser"
    /\ ops' = Append(ops, Op("upsert", "users", <<>>))
    /\ \E ok \in BOOLEAN :
           IF ok
           THEN spc' = "selectVehiclesMeta" /\ UNCHANGED syncResult
           ELSE syncResult' = failure("UserFailed") /\ spc' = "returned"
    /\ UNCHANGED <<config, localState, cloudVehicles, cloudRecords, frame>>
    /\ UNCHANGED <<now, remote0>>
    /\ UNCHANGED recalcVars
    /\ UNCHANGED appVars

\* 1.2 Vehicles: fetch cloud metadata
SelectVehiclesMeta ==
    /\ spc = "selectVehiclesMeta"
    /\ ops' = Append(ops, Op("select", "vehicles", <<"licensePlate", "updatedAt">>))
    /\ \E ok \in BOOLEAN :
           IF ok
           THEN LET meta == metaOf(cloudVehicles, "licensePlate")
                IN  /\ frame' = [frame EXCEPT !.cloudVehiclesMeta = meta]
                    /\ spc' = IF vehiclesToPush(localState, meta) # <<>>
                              THEN "upsertVehicles" ELSE "selectRecordsMeta"
                    /\ UNCHANGED syncResult
           ELSE /\ syncResult' = failure("VehicleMetaFailed")
                /\ spc' = "returned"
                /\ UNCHANGED frame
    /\ UNCHANGED <<config, localState, cloudVehicles, cloudRecords>>
    /\ UNCHANGED <<now, remote0>>
    /\ UNCHANGED recalcVars
    /\ UNCHANGED appVars

\* 1.2 Vehicles: push the newer ones
UpsertVehicles ==
    /\ spc = "upsertVehicles"
    /\ LET payload == vehiclePayload(vehiclesToPush(localState, frame.cloudVehiclesMeta), now)
       IN  /\ ops' = Append(ops, Op("upsert", "vehicles",
                                    [i \in 1..Len(payload) |-> payload[i].licensePlate]))
           /\ \E ok \in (IF affectsRowTwice(payload, "licensePlate") THEN {FALSE} ELSE BOOLEAN) :
                  IF ok
                  THEN /\ cloudVehicles' = upsert(cloudVehicles, payload, "licensePlate")
                       /\ spc' = "selectRecordsMeta"
                       /\ UNCHANGED syncResult
                  ELSE /\ syncResult' = failure("VehicleUploadFailed")
                       /\ spc' = "returned"
                       /\ UNCHANGED cloudVehicles
    /\ UNCHANGED <<config, localState, cloudRecords, frame>>
    /\ UNCHANGED <<now, remote0>>
    /\ UNCHANGED recalcVars
    /\ UNCHANGED appVars

\* afterRecordsMeta, had the pull followed the metadata at once
afterRecordsMetaPull(ls, meta) == "selectVehicles"

\* if (recordsToPush.length > 0) ... if (recordPayload.length > 0): the records
\* are upserted, or the pull comes next
afterRecordsMeta(ls, meta) ==
    IF recordPayload(ls, recordsToPush(ls, meta)) # <<>>
    THEN "upsertRecords" ELSE "selectVehicles"

\* 1.3 Records: fetch cloud metadata
SelectRecordsMeta ==
    /\ spc = "selectRecordsMeta"
    /\ ops' = Append(ops, Op("select", "charging_records", <<"id", "updatedAt">>))
    /\ \E ok \in BOOLEAN :
           IF ok
           THEN LET meta == metaOf(cloudRecords, "id")
                IN  /\ frame' = [frame EXCEPT !.cloudRecordsMeta = meta]
                    /\ spc' = afterRecordsMeta(localState, meta)
                    /\ UNCHANGED syncResult
           ELSE /\ syncResult' = failure("RecordMetaFailed")
                /\ spc' = "returned"
                /\ UNCHANGED frame
    /\ UNCHANGED <<config, localState, cloudVehicles, cloudRecords>>
    /\ UNCHANGED <<now, remote0>>
    /\ UNCHANGED recalcVars
    /\ UNCHANGED appVars

\* 1.3 Records: push the newer ones
UpsertRecords ==
    /\ spc = "upsertRecords"
    /\ LET payload == recordPayload(localState, recordsToPush(localState, frame.cloudRecordsMeta))
       IN  /\ ops' = Append(ops, Op("upsert", "charging_records",
                                    [i \in 1..Len(payload) |-> payload[i].id]))
           /\ \E ok \in (IF affectsRowTwice(payload, "id") THEN {FALSE} ELSE BOOLEAN) :
                  IF ok
                  THEN /\ cloudRecords' = upsert(cloudRecords, payload, "id")
                       /\ spc' = "selectVehicles"
                       /\ UNCHANGED syncResult
                  ELSE /\ syncResult' = failure("RecordUploadFailed")
                       /\ spc' = "returned"
                       /\ UNCHANGED cloudRecords
    /\ UNCHANGED <<config, localState, cloudVehicles, frame>>
    /\ UNCHANGED <<now, remote0>>
    /\ UNCHANGED recalcVars
    /\ UNCHANGED appVars

\* 2.1 Fetch Vehicles
SelectVehicles ==
    /\ spc = "selectVehicles"
    /\ ops' = Append(ops, Op("select", "vehicles", <<"*">>))
    /\ \E ok \in BOOLEAN :
           IF ok
           THEN /\ frame' = [frame EXCEPT !.fetchedVehicles = cloudVehicles]
                /\ spc' = "selectRecords"
                /\ UNCHANGED syncResult
           ELSE /\ syncResult' = failure("FetchVehiclesFailed")
                /\ spc' = "returned"
                /\ UNCHANGED frame
    /\ UNCHANGED <<config, localState, cloudVehicles, cloudRecords>>
    /\ UNCHANGED <<now, remote0>>
    /\ UNCHANGED recalcVars
    /\ UNCHANGED appVars

\* 2.2 Fetch Records, then STEP 3 (merge, recalculate) and the return
SelectRecords ==
    /\ spc = "selectRecords"
    /\ ops' = Append(ops, Op("select", "charging_records", <<"*">>))
    /\ \E ok \in BOOLEAN :
           IF ok
           THEN LET mvs == mergedVehicles(localState, frame.fetchedVehicles)
                    mrs == mergedRecords(mvs, cloudRecords)
                    finalRecords == recalculateRecords(mrs, mvs)
                IN  syncResult' =
                        IF finalRecords.threw THEN failure("TypeError")
                        ELSE [returned |-> TRUE, success |-> TRUE, message |-> "Merged",
                              hasData |-> TRUE,
                              data |-> [vehicles |-> mvs, records |-> finalRecords.value,
                                        deletedRecordIds |-> <<>>, deletedVehicleIds |-> <<>>]]
           ELSE syncResult' = failure("FetchRecordsFailed")
    /\ spc' = "returned"
    /\ UNCHANGED <<config, localState, cloudVehicles, cloudRecords, frame>>
    /\ UNCHANGED <<now, remote0>>
    /\ UNCHANGED recalcVars
    /\ UNCHANGED appVars

----------------------------------------------------------------------------
(* Inputs of the reconciliation engine *)

StaleNone ==
    [durationMinutes |-> undefined, theoreticalEnergy |-> undefined,
     efficiencyLossPct |-> undefined, distanceDriven |-> undefined,
     energyConsumption |-> undefined]

StaleJunk ==
    [durationMinutes |-> Num(7), theoreticalEnergy |-> Num(1230),
     efficiencyLossPct |-> Num(-5000), distanceDriven |-> Num(55),
     energyConsumption |-> Num(9990)]

ChargingRecord(vehicleId, odometer, startTime, endTime, startSoC, endSoC, pricePerKwh, energyCharged, totalCost, type, stale) ==
    [id |-> 0, vehicleId |-> vehicleId, odometer |-> odometer,
     startTime |-> startTime, endTime |-> endTime,
     startSoC |-> startSoC, endSoC |-> endSoC,
     pricePerKwh |-> pricePerKwh, energyCharged |-> energyCharged,
     totalCost |-> totalCost, type |-> type,
     createdAt |-> 10, updatedAt |-> 10 + startTime,
     durationMinutes |-> stale.durationMinutes,
     theoreticalEnergy |-> stale.theoreticalEnergy,
     efficiencyLossPct |-> stale.efficiencyLossPct,
     distanceDriven |-> stale.distanceDriven,
     energyConsumption |-> stale.energyConsumption]

\* the records a caller may pass: vehicles "v1", "v2" and the unknown "vX",
\* equal start times, decreasing odometers, inverted and level SoC, absent
\* end time, no energy charged, zero, sub-cent, NaN, infinite and absent
\* totalCost
RecordPool ==
    { ChargingRecord("v1", 1000, 0, 3, 20, 80, 1500, 40000, Num(0), "Fast", StaleJunk),
      ChargingRecord("v1", 1300, 2, NoTime, 30, 90, 1500, 40000, Num(4), "Slow", StaleNone),
      ChargingRecord("v1", 1100, 2, 0, 80, 30, 1500, 0, NaN, "Fast", StaleJunk),
      ChargingRecord("v1", 900, 4, 5, 10, 50, 0, 0, undefined, "Slow", StaleJunk),
      ChargingRecord("v2", 500, 0, 2, 50, 100, 1200, 30000, undefined, "Fast", StaleNone),
      ChargingRecord("v2", 200, 1, 2, 40, 60, 1000, 7000, Num(12345), "Slow", StaleJunk),
      ChargingRecord("v2", 650, 3, 4, 50, 50, 1000, 0, Num(5000), "Slow", StaleJunk),
      ChargingRecord("vX", 700, 0, 4, 20, 60, 1500, 10000, Infinity, "Fast", StaleJunk),
      ChargingRecord("vX", 800, 0, 1, 50, 70, 2000, 5000, Num(-4), "Slow", StaleNone) }

Vehicle(id, name, batteryCapacity, licensePlate, initialOdometer, updatedAt) ==
    [id |-> id, name |-> name, batteryCapacity |-> batteryCapacity,
     licensePlate |-> licensePlate, initialOdometer |-> initialOdometer,
     updatedAt |-> updatedAt]

VehicleLists ==
    { <<Vehicle("v1", "car1", 60, Str(<<"A">>), 500, 5),
        Vehicle("v2", "car2", 40, Str(<<"B">>), 0, 3)>>,
      <<Vehicle("v1", "car1", 0, Str(<<"A">>), 0, 5),
        Vehicle("v2", "car2", -10, Str(<<"B">>), 100, 3)>>,
      <<Vehicle("v2", "car2", 75, Str(<<"B">>), 300, 3)>> }

Shuffles(n) ==
    {p \in [1..n -> 1..n] : \A i, j \in 1..n : p[i] = p[j] => i = j}

NoResult == [threw |-> FALSE, value |-> <<>>]

----------------------------------------------------------------------------
(* The caller of the reconciliation engine *)

InitRecalc ==
    /\ \E n \in 0..MaxRecords : \E f \in [1..n -> RecordPool] :
           records = [i \in 1..n |-> [f[i] EXCEPT !.id = i]]
    /\ vehicles \in VehicleLists
    /\ result = NoResult
    /\ result2 = NoResult
    /\ resultP = NoResult
    /\ shuffle = <<>>
    /\ pc = "input"
    /\ SyncIdle
    /\ AppIdle

Recalculate ==
    /\ pc = "input"
    /\ result' = recalculateRecords(records, vehicles)
    /\ pc' = "once"
    /\ UNCHANGED <<records, vehicles, result2, resultP, shuffle>>
    /\ UNCHANGED syncVars
    /\ UNCHANGED appVars

RecalculateShuffled ==
    /\ pc = "once"
    /\ \E p \in Shuffles(Len(records)) :
           /\ shuffle' = p
           /\ resultP' = recalculateRecords([i \in 1..Len(records) |-> records[p[i]]], vehicles)
    /\ pc' = "shuffled"
    /\ UNCHANGED <<records, vehicles, result, result2>>
    /\ UNCHANGED syncVars
    /\ UNCHANGED appVars

RecalculateAgain ==
    /\ pc = "shuffled"
    /\ ~result.threw
    /\ result2' = recalculateRecords(result.value, vehicles)
    /\ pc' = "twice"
    /\ UNCHANGED <<records, vehicles, result, resultP, shuffle>>
    /\ UNCHANGED syncVars
    /\ UNCHANGED appVars

NextRecalc ==
    \/ Recalculate
    \/ RecalculateShuffled
    \/ RecalculateAgain

SpecRecalc == InitRecalc /\ [][NextRecalc]_vars

----------------------------------------------------------------------------
(* One call of syncWithSupabase against the remote store *)

SyncRecordA ==
    [ChargingRecord("v1", 1000, 0, 3, 20, 80, 1500, 40000, Num(0), "Fast", StaleJunk)
        EXCEPT !.id = 1, !.updatedAt = 10]

SyncRecordB ==
    [ChargingRecord("v2", 500, 2, NoTime, 50, 100, 1200, 30000, NaN, "Slow", StaleNone)
        EXCEPT !.id = 2, !.updatedAt = 30]

CloudRecordA ==
    recordRow([ChargingRecord("v1", 1050, 1, 3, 25, 80, 1500, 38000, Num(57000), "Fast", StaleJunk)
                  EXCEPT !.id = 1, !.updatedAt = 20], <<"A">>)

CloudRecordC ==
    recordRow([ChargingRecord("v9", 300, 1, 2, 10, 90, 1000, 50000, Num(50000), "Slow", StaleJunk)
                  EXCEPT !.id = 3, !.updatedAt = 7], <<"C">>)

\* a record as merged from a remote row whose updatedAt is null
SyncRecordB0 == [SyncRecordB EXCEPT !.updatedAt = 0]

\* its row, with derived columns as a device once pushed them
CloudRecordB ==
    recordRow([SyncRecordB0 EXCEPT !.durationMinutes = Num(7),
                                   !.efficiencyLossPct = Num(-5000)], <<"B">>)

\* a row whose licensePlate is null (the column is nullable): it reads as a
\* plate no vehicle has
CloudRecordN ==
    recordRow([ChargingRecord("v8", 250, 1, 4, 15, 65, 1000, 20000, Num(20000), "Fast", StaleJunk)
                  EXCEPT !.id = 4, !.updatedAt = 8], <<>>)

CloudVehicle(licensePlate, name, batteryCapacity, initialOdometer, updatedAt) ==
    [licensePlate |-> licensePlate, name |-> name, batteryCapacity |-> batteryCapacity,
     initialOdometer |-> initialOdometer, updatedAt |-> updatedAt]

LocalVehicleLists ==
    { <<>>,
      <<Vehicle("v1", "car1", 60, Str(<<"A">>), 500, 5)>>,
      <<Vehicle("v1", "car1", 60, Str(<<"A">>), 500, 5),
        Vehicle("v2", "car2", 40, Str(<<"B">>), 0, 0)>>,
      <<Vehicle("v1", "car1", 60, Str(<<"A">>), 500, 5),
        Vehicle("v2", "car2", 40, NoStr, 0, 3)>>,
      <<Vehicle("v1", "car1", 60, Str(<<>>), 500, 5)>>,
      <<Vehicle("v1", "car1", 60, Str(<<"A">>), 500, 5),
        Vehicle("v2", "car2", 40, Str(<<" ", " ">>), 0, 3)>>,
      <<Vehicle("v1", "car1", 60, Str(<<"A">>), 500, 5),
        Vehicle("v3", "car3", 50, Str(<<"A">>), 0, 40)>> }

LocalRecordLists ==
    { <<>>, <<SyncRecordA>>, <<SyncRecordA, SyncRecordB>>, <<SyncRecordA, SyncRecordB0>> }

DeletedRecordIdLists == { <<>>, <<3>> }

\* remote tables that respect the primary and foreign keys; updatedAt is a
\* nullable column, 0 stands for a row without it
CloudStates ==
    { [vehicles |-> <<>>, records |-> <<>>],
      [vehicles |-> <<CloudVehicle(<<"A">>, "cloud1", 62, 400, 9)>>,
       records |-> <<CloudRecordA>>],
      [vehicles |-> <<CloudVehicle(<<"A">>, "cloud1", 62, 400, 2),
                      CloudVehicle(<<"C">>, "cloud3", 80, 0, 4)>>,
       records |-> <<>>],
      [vehicles |-> <<CloudVehicle(<<"A">>, "cloud1", 62, 400, 2),
                      CloudVehicle(<<"C">>, "cloud3", 80, 0, 4)>>,
       records |-> <<CloudRecordA, CloudRecordC>>],
      [vehicles |-> <<CloudVehicle(<<"A">>, "cloud1", 62, 400, 2),
                      CloudVehicle(<<"B">>, "cloud2", 45, 10, 0)>>,
       records |-> <<CloudRecordB>>],
      [vehicles |-> <<CloudVehicle(<<"A">>, "cloud1", 62, 400, 9)>>,
       records |-> <<CloudRecordA, CloudRecordN>>] }

Configs == [projectUrl : {"", "url"}, apiKey : {"", "key"}]

RecalcIdle ==
    /\ records = <<>>
    /\ vehicles = <<>>
    /\ result = NoResult
    /\ result2 = NoResult
    /\ resultP = NoResult
    /\ shuffle = <<>>
    /\ pc = "input"

InitSync ==
    /\ RecalcIdle
    /\ AppIdle
    /\ config \in Configs
    /\ \E vs \in LocalVehicleLists, rs \in LocalRecordLists, ds \in DeletedRecordIdLists :
           localState = [vehicles |-> vs, records |-> rs,
                         deletedRecordIds |-> ds, deletedVehicleIds |-> <<>>]
    /\ \E c \in CloudStates : cloudVehicles = c.vehicles /\ cloudRecords = c.records /\ remote0 = c
    /\ ops = <<>>
    /\ spc = "idle"
    /\ frame = NoFrame
    /\ syncResult = NotReturned
    /\ now = Now

MaxAttempts == 2

\* the caller, handed a failure, calls syncWithSupabase again with the same
\* arguments; Date.now() has advanced
Retry ==
    /\ spc = "returned"
    /\ ~syncResult.success
    /\ now - Now + 1 < MaxAttempts
    /\ now' = now + 1
    /\ spc' = "idle"
    /\ ops' = <<>>
    /\ frame' = NoFrame
    /\ syncResult' = NotReturned
    /\ UNCHANGED <<config, localState, cloudVehicles, cloudRecords, remote0>>
    /\ UNCHANGED recalcVars
    /\ UNCHANGED appVars

NextSync ==
    \/ Retry
    \/ SyncCall
    \/ DeleteRecords
    \/ UpsertUser
    \/ SelectVehiclesMeta
    \/ UpsertVehicles
    \/ SelectRecordsMeta
    \/ UpsertRecords
    \/ SelectVehicles
    \/ SelectRecords

SpecSync == InitSync /\ [][NextSync]_vars

----------------------------------------------------------------------------
(* The application: App.tsx and the Settings component it renders.  A       *)
(* handler runs to completion before the next event; a render and its       *)
(* effects (stateRef, isSyncingRef, the disabled attribute of a button)     *)
(* follow the state change that caused them before the next event.  The     *)
(* sync variables follow one call of syncWithSupabase; a call entered while *)
(* another is in flight has its requests served after those of the calls    *)
(* entered before it.                                                       *)

\* the user's clicks and the timer's ticks in one run
MaxEvents == 3

\* Date.now() at the first user action
FirstEdit == 40

\* generateId() for a record created at instant t
recordIdAt(t) == 100 + t

\* the fields of AppState that syncWithSupabase reads and returns
snapshot(st) ==
    [vehicles |-> st.vehicles, records |-> st.records,
     deletedRecordIds |-> st.deletedRecordIds,
     deletedVehicleIds |-> st.deletedVehicleIds]

isSyncConfigured(st) ==
    st.supabaseConfig.projectUrl # "" /\ st.supabaseConfig.apiKey # ""

\* applyResult, had the result been merged without looking at success
applyResultUnchecked(prev, res, lastSync) ==
    [prev EXCEPT !.vehicles = res.data.vehicles,
                 !.records = res.data.records,
                 !.deletedRecordIds = res.data.deletedRecordIds,
                 !.deletedVehicleIds = res.data.deletedVehicleIds,
                 !.supabaseConfig.lastSync = lastSync]

\* if (result.success && result.data)
\*     setState(prev => ({...prev, ...result.data, supabaseConfig: {...prev.supabaseConfig, lastSync}}))
applyResult(prev, res, lastSync) ==
    IF res.success /\ res.hasData
    THEN [prev EXCEPT !.vehicles = res.data.vehicles,
                      !.records = res.data.records,
                      !.deletedRecordIds = res.data.deletedRecordIds,
                      !.deletedVehicleIds = res.data.deletedVehicleIds,
                      !.supabaseConfig.lastSync = lastSync]
    ELSE prev

\* Settings: if (result.success && result.data) onUpdateState(result.data)
applySettingsResult(prev, res) ==
    IF res.success /\ res.hasData
    THEN [prev EXCEPT !.vehicles = res.data.vehicles,
                      !.records = res.data.records,
                      !.deletedRecordIds = res.data.deletedRecordIds,
                      !.deletedVehicleIds = res.data.deletedVehicleIds]
    ELSE prev

\* syncWithSupabase(cfg, ls) is entered from the entry point by
StartCall(by, cfg, ls) ==
    IF caller = "none"
    THEN /\ caller' = by
         /\ config' = cfg
         /\ localState' = ls
         /\ ops' = <<>>
         /\ spc' = "idle"
         /\ frame' = NoFrame
         /\ syncResult' = NotReturned
         /\ remote0' = [vehicles |-> cloudVehicles, records |-> cloudRecords]
         /\ UNCHANGED pending
    ELSE /\ pending' = Append(pending, [by |-> by, config |-> cfg, localState |-> ls])
         /\ UNCHANGED <<caller, config, localState, ops, spc, frame, syncResult, remote0>>

\* the call has resolved: the sync variables turn to the next call in flight
EndCall ==
    /\ frame' = NoFrame
    /\ IF pending = <<>>
       THEN /\ caller' = "none"
            /\ spc' = "none"
            /\ UNCHANGED <<config, localState, ops, syncResult, pending, remote0>>
       ELSE /\ caller' = Head(pending).by
            /\ config' = Head(pending).config
            /\ localState' = Head(pending).localState
            /\ spc' = "idle"
            /\ ops' = <<>>
            /\ syncResult' = NotReturned
            /\ remote0' = [vehicles |-> cloudVehicles, records |-> cloudRecords]
            /\ pending' = Tail(pending)

\* the auto-sync effect: performAutoSync, at mount and on every interval tick
PerformAutoSync ==
    /\ events < MaxEvents
    /\ state.supabaseConfig.autoSync
    /\ isSyncConfigured(state)
    /\ ~isSyncing
    /\ isSyncing' = TRUE
    /\ StartCall("auto", state.supabaseConfig, snapshot(state))
    /\ events' = events + 1
    /\ UNCHANGED <<state, settingsSyncing, importing, clock>>
    /\ UNCHANGED <<cloudVehicles, cloudRecords, now>>
    /\ UNCHANGED devices
    /\ UNCHANGED recalcVars

\* isSyncingAfter, had the flag been cleared next to the setState of a
\* successful result
isSyncingAfterSuccess(res) == ~(res.success /\ res.hasData)

\* finally { setIsSyncing(false) }: the flag once the call has resolved with res
isSyncingAfter(res) == FALSE

\* performAutoSync after its await
PerformAutoSyncReturn ==
    /\ caller = "auto"
    /\ spc = "returned"
    /\ state' = applyResult(state, syncResult, Now)
    /\ isSyncing' = isSyncingAfter(syncResult)
    /\ EndCall
    /\ UNCHANGED <<settingsSyncing, importing, clock, events>>
    /\ UNCHANGED <<cloudVehicles, cloudRecords, now>>
    /\ UNCHANGED devices
    /\ UNCHANGED recalcVars

\* App.handleSync: the header button, rendered when sync is configured and
\* disabled while isSyncing
HandleSync ==
    /\ events < MaxEvents
    /\ isSyncConfigured(state)
    /\ ~isSyncing
    /\ isSyncing' = TRUE
    /\ StartCall("header", state.supabaseConfig, snapshot(state))
    /\ events' = events + 1
    /\ UNCHANGED <<state, settingsSyncing, importing, clock>>
    /\ UNCHANGED <<cloudVehicles, cloudRecords, now>>
    /\ UNCHANGED devices
    /\ UNCHANGED recalcVars

\* App.handleSync after its await
HandleSyncReturn ==
    /\ caller = "header"
    /\ spc = "returned"
    /\ state' = applyResult(state, syncResult, Now)
    /\ isSyncing' = isSyncingAfter(syncResult)
    /\ EndCall
    /\ UNCHANGED <<settingsSyncing, importing, clock, events>>
    /\ UNCHANGED <<cloudVehicles, cloudRecords, now>>
    /\ UNCHANGED devices
    /\ UNCHANGED recalcVars

\* Settings.handleSync: the button is disabled while the component's own
\* isSyncing is set or a form field is empty; the form holds the stored
\* project URL, key and auto-sync switch
SettingsHandleSync ==
    /\ events < MaxEvents
    /\ ~settingsSyncing
    /\ isSyncConfigured(state)
    /\ vehiclesWithoutPlate(state) = <<>>
    /\ settingsSyncing' = TRUE
    /\ LET cfg == [projectUrl |-> state.supabaseConfig.projectUrl,
                   apiKey |-> state.supabaseConfig.apiKey,
                   autoSync |-> state.supabaseConfig.autoSync, lastSync |-> 0]
       IN  /\ state' = [state EXCEPT !.supabaseConfig = cfg]
           /\ StartCall("settings", cfg, snapshot(state))
    /\ events' = events + 1
    /\ UNCHANGED <<isSyncing, importing, clock>>
    /\ UNCHANGED <<cloudVehicles, cloudRecords, now>>
    /\ UNCHANGED devices
    /\ UNCHANGED recalcVars

\* Settings.handleSync after its await
SettingsHandleSyncReturn ==
    /\ caller = "settings"
    /\ spc = "returned"
    /\ state' = applySettingsResult(state, syncResult)
    /\ settingsSyncing' = FALSE
    /\ EndCall
    /\ UNCHANGED <<isSyncing, importing, clock, events>>
    /\ UNCHANGED <<cloudVehicles, cloudRecords, now>>
    /\ UNCHANGED devices
    /\ UNCHANGED recalcVars

\* the record RecordForm.handleSubmit passes to onSave at instant t: a new
\* record of the vehicle the form preselects (the first one), or the first
\* stored record of an active vehicle with a changed odometer
FormRecords(st, t) ==
    LET editable == {n \in 1..Len(st.records) :
                        \E j \in 1..Len(st.vehicles) : st.vehicles[j].id = st.records[n].vehicleId}
    IN  { [ChargingRecord(st.vehicles[i].id, 1200, 5, 6, 30, 70, 1500, 20000, Num(30000), "Fast", StaleNone)
              EXCEPT !.id = recordIdAt(t), !.createdAt = t, !.updatedAt = t] :
          i \in {n \in 1..Len(st.vehicles) : n = 1} }
        \cup
        { [st.records[i] EXCEPT !.odometer = st.records[i].odometer + 50, !.updatedAt = t] :
          i \in {n \in editable : \A m \in editable : n <= m} }

\* savedRecords, had the saved record always been appended
savedRecordsAppended(prev, record) ==
    Append(prev.records, record)

\* handleSaveRecord's newRecords: the record replaces the first one with its
\* id, or is appended
savedRecords(prev, record) ==
    LET existing == {i \in 1..Len(prev.records) : prev.records[i].id = record.id}
        existingIdx == CHOOSE i \in existing : \A j \in existing : i <= j
    IN  IF existing # {}
        THEN [prev.records EXCEPT ![existingIdx] = record]
        ELSE Append(prev.records, record)

\* App.handleSaveRecord(record)
HandleSaveRecord ==
    /\ events < MaxEvents
    /\ \E record \in FormRecords(state, clock) :
           LET recalculatedRecords == recalculateRecords(savedRecords(state, record), state.vehicles)
           IN  /\ ~recalculatedRecords.threw
               /\ state' = [state EXCEPT !.records = recalculatedRecords.value]
    /\ clock' = clock + 1
    /\ events' = events + 1
    /\ UNCHANGED <<isSyncing, settingsSyncing, caller, pending, importing>>
    /\ UNCHANGED syncVars
    /\ UNCHANGED devices
    /\ UNCHANGED recalcVars

\* App.handleDeleteRecord(id), the confirmation accepted
HandleDeleteRecord ==
    /\ events < MaxEvents
    /\ \E i \in 1..Len(state.records) :
           LET id == state.records[i].id
               newRecords == SelectSeq(state.records, LAMBDA r : r.id # id)
               recalculatedRecords == recalculateRecords(newRecords, state.vehicles)
           IN  /\ ~recalculatedRecords.threw
               /\ state' = [state EXCEPT !.records = recalculatedRecords.value,
                                         !.deletedRecordIds = Append(state.deletedRecordIds, id)]
    /\ events' = events + 1
    /\ UNCHANGED <<isSyncing, settingsSyncing, caller, pending, importing, clock>>
    /\ UNCHANGED syncVars
    /\ UNCHANGED devices
    /\ UNCHANGED recalcVars

\* Settings.handleRemoveVehicle(id), the confirmation accepted
HandleRemoveVehicle ==
    /\ events < MaxEvents
    /\ \E i \in 1..Len(state.vehicles) :
           LET id == state.vehicles[i].id
           IN  state' = [state EXCEPT
                   !.vehicles = SelectSeq(state.vehicles, LAMBDA v : v.id # id),
                   !.deletedVehicleIds = Append(state.deletedVehicleIds, id)]
    /\ events' = events + 1
    /\ UNCHANGED <<isSyncing, settingsSyncing, caller, pending, importing, clock>>
    /\ UNCHANGED syncVars
    /\ UNCHANGED devices
    /\ UNCHANGED recalcVars

\* Settings.handleFileChange: the file is handed to the FileReader; onload
\* closes over the state the component was rendered with
HandleFileChange ==
    /\ events < MaxEvents
    /\ ~importing.reading
    /\ importing' = [reading |-> TRUE, records |-> state.records, vehicles |-> state.vehicles]
    /\ events' = events + 1
    /\ UNCHANGED <<state, isSyncing, settingsSyncing, caller, pending, clock>>
    /\ UNCHANGED syncVars
    /\ UNCHANGED devices
    /\ UNCHANGED recalcVars

\* the record built from a CSV row that names the vehicle, at instant t
ImportedRecord(vehicle, t) ==
    [ChargingRecord(vehicle.id, 1500, 7, 9, 20, 60, 1000, 15000, Num(15000), "Slow", StaleNone)
        EXCEPT !.id = recordIdAt(t), !.createdAt = t, !.updatedAt = t,
               !.durationMinutes = Num(calculateDuration(7, 9)),
               !.theoreticalEnergy = Num(calculateTheoreticalEnergy(vehicle.batteryCapacity, 20, 60)),
               !.efficiencyLossPct = Num(0),
               !.distanceDriven = Num(0), !.energyConsumption = Num(0)]

\* reader.onload: a file of one row, which names the first vehicle of the
\* closure or no vehicle of it (the row is then skipped)
ImportLoad ==
    /\ importing.reading
    /\ \/ /\ \E i \in {n \in 1..Len(importing.vehicles) : n = 1} :
                 LET newRecords == <<ImportedRecord(importing.vehicles[i], clock)>>
                     combinedRecords == importing.records \o newRecords
                     recalculatedRecords == recalculateRecords(combinedRecords, importing.vehicles)
                 IN  state' = IF recalculatedRecords.threw THEN state
                              ELSE [state EXCEPT !.records = recalculatedRecords.value]
       \/ UNCHANGED state
    /\ importing' = NoImport
    /\ clock' = clock + 1
    /\ UNCHANGED <<isSyncing, settingsSyncing, caller, pending, events>>
    /\ UNCHANGED syncVars
    /\ UNCHANGED devices
    /\ UNCHANGED recalcVars

\* the vehicle the Settings form saves at instant t: the first vehicle,
\* edited, with another capacity or another licensePlate
FormVehicles(st, t) ==
    { [st.vehicles[i] EXCEPT !.batteryCapacity = 75, !.updatedAt = t] :
      i \in {n \in 1..Len(st.vehicles) : n = 1} }
    \cup
    { [st.vehicles[i] EXCEPT !.licensePlate = Str(<<"D">>), !.updatedAt = t] :
      i \in {n \in 1..Len(st.vehicles) : n = 1} }

\* Settings.handleSaveVehicle, a vehicle being edited:
\* onUpdateState({ vehicles: updatedVehicles })
HandleSaveVehicle ==
    /\ events < MaxEvents
    /\ \E vehicle \in FormVehicles(state, clock) :
           LET updatedVehicles == [i \in 1..Len(state.vehicles) |->
                                      IF state.vehicles[i].id = vehicle.id
                                      THEN vehicle ELSE state.vehicles[i]]
           IN  state' = [state EXCEPT !.vehicles = updatedVehicles]
    /\ clock' = clock + 1
    /\ events' = events + 1
    /\ UNCHANGED <<isSyncing, settingsSyncing, caller, pending, importing>>
    /\ UNCHANGED syncVars
    /\ UNCHANGED devices
    /\ UNCHANGED recalcVars

\* the state loadState() returns: two vehicles (the second as onboarding left
\* it, with or without a plate), their records as the engine left them, both
\* deletion queues empty, sync configured with auto-sync on
AppVehicleLists ==
    { <<Vehicle("v1", "car1", 60, Str(<<"A">>), 500, 5),
        Vehicle("v2", "car2", 40, Str(<<"B">>), 0, 0)>>,
      <<Vehicle("v1", "car1", 60, Str(<<"A">>), 500, 5),
        Vehicle("v2", "car2", 40, NoStr, 0, 0)>> }

AppRecords == <<SyncRecordA, SyncRecordB>>

\* the remote tables: vehicle "A" and record 1, both newer than the local copies
AppCloud ==
    [vehicles |-> <<CloudVehicle(<<"A">>, "cloud1", 62, 400, 9)>>,
     records |-> <<CloudRecordA>>]

InitApp ==
    /\ RecalcIdle
    /\ \E vs \in AppVehicleLists :
           state = [vehicles |-> vs,
                    records |-> recalculateRecords(AppRecords, vs).value,
                    deletedRecordIds |-> <<>>, deletedVehicleIds |-> <<>>,
                    supabaseConfig |-> [projectUrl |-> "url", apiKey |-> "key",
                                        autoSync |-> TRUE, lastSync |-> 0]]
    /\ isSyncing = FALSE
    /\ settingsSyncing = FALSE
    /\ caller = "none"
    /\ pending = <<>>
    /\ importing = NoImport
    /\ clock = FirstEdit
    /\ events = 0
    /\ devices = NoDevices
    /\ config = NoSupabaseConfig
    /\ localState = snapshot(DEFAULT_STATE)
    /\ cloudVehicles = AppCloud.vehicles
    /\ cloudRecords = AppCloud.records
    /\ remote0 = AppCloud
    /\ now = Now
    /\ ops = <<>>
    /\ spc = "none"
    /\ frame = NoFrame
    /\ syncResult = NotReturned

NextApp ==
    \/ PerformAutoSync
    \/ PerformAutoSyncReturn
    \/ HandleSync
    \/ HandleSyncReturn
    \/ SettingsHandleSync
    \/ SettingsHandleSyncReturn
    \/ SyncCall
    \/ DeleteRecords
    \/ UpsertUser
    \/ SelectVehiclesMeta
    \/ UpsertVehicles
    \/ SelectRecordsMeta
    \/ UpsertRecords
    \/ SelectVehicles
    \/ SelectRecords
    \/ HandleSaveRecord
    \/ HandleDeleteRecord
    \/ HandleRemoveVehicle
    \/ HandleFileChange
    \/ ImportLoad

SpecApp == InitApp /\ [][NextApp]_vars

\* a request of the call in progress
RemoteStep ==
    \/ SyncCall
    \/ DeleteRecords
    \/ UpsertUser
    \/ SelectVehiclesMeta
    \/ UpsertVehicles
    \/ SelectRecordsMeta
    \/ UpsertRecords
    \/ SelectVehicles
    \/ SelectRecords

\* the continuation of a caller after its await
Continuation ==
    \/ PerformAutoSyncReturn
    \/ HandleSyncReturn
    \/ SettingsHandleSyncReturn

\* the application, when every remote call returns (with data or an error)
\* and every resolved promise runs its continuation
SpecAppLive ==
    InitApp /\ [][NextApp]_vars /\ WF_vars(RemoteStep) /\ WF_vars(Continuation)

\* the application, the vehicle form of Settings included
NextAppEdit ==
    \/ NextApp
    \/ HandleSaveVehicle

SpecAppEdit == InitApp /\ [][NextAppEdit]_vars

----------------------------------------------------------------------------
(* Two devices of one user on one remote store.  Each runs the             *)
(* application; the calls of syncWithSupabase follow one another.          *)

Devices == {"A", "B"}

\* the records a device holds after it pulled the rows of AppCloud
PulledBy(vs) == recalculateRecords(mergedRecords(vs, AppCloud.records), vs).value

\* device A has pulled vehicle "A" and record 1 and has a second vehicle it
\* has not pushed yet; device B has pulled vehicle "A" and record 1
DeviceStates ==
    [A |-> LET vs == <<Vehicle("v1", "cloud1", 62, Str(<<"A">>), 400, 9),
                       Vehicle("v2", "car2", 40, Str(<<"B">>), 0, 0)>>
           IN  [vehicles |-> vs, records |-> PulledBy(vs),
                deletedRecordIds |-> <<>>, deletedVehicleIds |-> <<>>],
     B |-> LET vs == <<Vehicle("w1", "cloud1", 62, Str(<<"A">>), 400, 9)>>
           IN  [vehicles |-> vs, records |-> PulledBy(vs),
                deletedRecordIds |-> <<>>, deletedVehicleIds |-> <<>>]]

InitDevices ==
    /\ RecalcIdle
    /\ state = DEFAULT_STATE
    /\ isSyncing = FALSE
    /\ settingsSyncing = FALSE
    /\ caller = "none"
    /\ pending = <<>>
    /\ importing = NoImport
    /\ clock = 0
    /\ events = 0
    /\ devices = [states |-> DeviceStates, syncing |-> "none", events |-> 0]
    /\ config = [projectUrl |-> "url", apiKey |-> "key"]
    /\ localState = NoData
    /\ cloudVehicles = AppCloud.vehicles
    /\ cloudRecords = AppCloud.records
    /\ remote0 = AppCloud
    /\ now = Now
    /\ ops = <<>>
    /\ spc = "none"
    /\ frame = NoFrame
    /\ syncResult = NotReturned

\* App.handleDeleteRecord(id) on device d
DeviceDeleteRecord(d) ==
    /\ devices.events < MaxEvents
    /\ \E i \in 1..Len(devices.states[d].records) :
           LET st == devices.states[d]
               id == st.records[i].id
               newRecords == SelectSeq(st.records, LAMBDA r : r.id # id)
               recalculatedRecords == recalculateRecords(newRecords, st.vehicles)
           IN  /\ ~recalculatedRecords.threw
               /\ devices' = [devices EXCEPT
                      !.states[d].records = recalculatedRecords.value,
                      !.states[d].deletedRecordIds = Append(st.deletedRecordIds, id),
                      !.events = devices.events + 1]
    /\ UNCHANGED <<state, isSyncing, settingsSyncing, caller, pending, importing, clock, events>>
    /\ UNCHANGED syncVars
    /\ UNCHANGED recalcVars

\* App.handleSync on device d, up to the call of syncWithSupabase
DeviceSync(d) ==
    /\ devices.events < MaxEvents
    /\ devices.syncing = "none"
    /\ devices' = [devices EXCEPT !.syncing = d, !.events = devices.events + 1]
    /\ localState' = devices.states[d]
    /\ ops' = <<>>
    /\ spc' = "idle"
    /\ frame' = NoFrame
    /\ syncResult' = NotReturned
    /\ remote0' = [vehicles |-> cloudVehicles, records |-> cloudRecords]
    /\ UNCHANGED <<config, cloudVehicles, cloudRecords, now>>
    /\ UNCHANGED <<state, isSyncing, settingsSyncing, caller, pending, importing, clock, events>>
    /\ UNCHANGED recalcVars

\* App.handleSync after its await, on the device whose call has resolved
DeviceSyncReturn ==
    /\ devices.syncing # "none"
    /\ spc = "returned"
    /\ LET d == devices.syncing
       IN  devices' = [devices EXCEPT
               !.syncing = "none",
               !.states[d] = IF syncResult.success /\ syncResult.hasData
                             THEN syncResult.data ELSE devices.states[d]]
    /\ spc' = "none"
    /\ UNCHANGED <<config, localState, cloudVehicles, cloudRecords, ops, frame, syncResult, now, remote0>>
    /\ UNCHANGED <<state, isSyncing, settingsSyncing, caller, pending, importing, clock, events>>
    /\ UNCHANGED recalcVars

NextDevices ==
    \/ \E d \in Devices : DeviceDeleteRecord(d)
    \/ \E d \in Devices : DeviceSync(d)
    \/ DeviceSyncReturn
    \/ SyncCall
    \/ DeleteRecords
    \/ UpsertUser
    \/ SelectVehiclesMeta
    \/ UpsertVehicles
    \/ SelectRecordsMeta
    \/ UpsertRecords
    \/ SelectVehicles
    \/ SelectRecords

SpecDevices == InitDevices /\ [][NextDevices]_vars

----------------------------------------------------------------------------
(* Properties of the reconciliation engine *)

Range(seq) == {seq[i] : i \in 1..Len(seq)}

Returned == pc # "input" /\ ~result.threw

IdCount(seq, id) == Cardinality({i \in 1..Len(seq) : seq[i].id = id})

SameIds(a, b) ==
    /\ Len(a) = Len(b)
    /\ \A r \in Range(a) \cup Range(b) : IdCount(a, r.id) = IdCount(b, r.id)

DerivedEqual(a, b) ==
    /\ a.totalCost = b.totalCost
    /\ a.durationMinutes = b.durationMinutes
    /\ a.theoreticalEnergy = b.theoreticalEnergy
    /\ a.efficiencyLossPct = b.efficiencyLossPct
    /\ a.distanceDriven = b.distanceDriven
    /\ a.energyConsumption = b.energyConsumption

RawEqual(a, b) ==
    /\ a.id = b.id
    /\ a.vehicleId = b.vehicleId
    /\ a.odometer = b.odometer
    /\ a.startTime = b.startTime
    /\ a.endTime = b.endTime
    /\ a.startSoC = b.startSoC
    /\ a.endSoC = b.endSoC
    /\ a.pricePerKwh = b.pricePerKwh
    /\ a.energyCharged = b.energyCharged
    /\ a.type = b.type
    /\ a.createdAt = b.createdAt
    /\ a.updatedAt = b.updatedAt

SameOutcome(a, b) ==
    /\ a.threw = b.threw
    /\ Range(a.value) = Range(b.value)

NoEqualStartTimes(rs) ==
    \A i, j \in 1..Len(rs) :
        (i # j /\ rs[i].vehicleId = rs[j].vehicleId) => rs[i].startTime # rs[j].startTime

\* records[p] opens its vehicle's timeline: no record of the vehicle starts
\* earlier, and none with the same start time stands before it in the input
IsTimelineHead(rs, p) ==
    \A q \in 1..Len(rs) :
        (q # p /\ rs[q].vehicleId = rs[p].vehicleId) =>
            \/ rs[q].startTime > rs[p].startTime
            \/ rs[q].startTime = rs[p].startTime /\ q > p

\* C1: recalculateRecords(R, V) returns one output record per input record:
\* the ids of the output, counted with multiplicity, are those of the input.
C1_OneOutputPerInput ==
    pc # "input" => (~result.threw /\ SameIds(result.value, records))

\* C2: recalculateRecords is idempotent: a second pass over its own output
\* gives every record id the same six recomputed fields as the first pass.
C2_Idempotent ==
    pc = "twice" =>
        /\ ~result2.threw
        /\ \A a \in Range(result.value) :
               \E b \in Range(result2.value) : b.id = a.id /\ DerivedEqual(a, b)

\* C3, as stated: any permutation of the input gives the same set of output
\* records, also when two records of one vehicle have equal startTime.
C3_OrderInvariant ==
    pc \in {"shuffled", "twice"} => SameOutcome(result, resultP)

\* C3, amended: any permutation of the input gives the same outcome (the same
\* set of output records, or an exception in both) provided no two records of
\* one vehicle have equal startTime.
C3_OrderInvariantDistinctStarts ==
    (pc \in {"shuffled", "twice"} /\ NoEqualStartTimes(records))
        => SameOutcome(result, resultP)

C3_Witness ==
    /\ pc = "shuffled"
    /\ NoEqualStartTimes(records)
    /\ ~result.threw
    /\ \E i, j \in 1..Len(records) :
           /\ i < j
           /\ records[i].vehicleId = records[j].vehicleId
           /\ shuffle[i] > shuffle[j]
    /\ \E o \in Range(resultP.value) : o.distanceDriven.v > 0

\* C4: in the output, the record that opens each vehicle's timeline (earliest
\* startTime) has distanceDriven = 0 and energyConsumption = 0, whatever its
\* odometer, the vehicle's initialOdometer and its stale input values.
C4_FirstRecordZero ==
    Returned =>
        \A o \in Range(result.value) :
            (\E p \in 1..Len(records) : records[p].id = o.id /\ IsTimelineHead(records, p))
                => (o.distanceDriven = Num(0) /\ o.energyConsumption = Num(0))

C4_Witness ==
    /\ Returned
    /\ \E p, q \in 1..Len(records) :
           /\ p # q
           /\ records[p].vehicleId = records[q].vehicleId
           /\ IsTimelineHead(records, p)
           /\ records[p].odometer > 0
           /\ records[p].distanceDriven = Num(55)
           /\ records[p].energyConsumption = Num(9990)
           /\ \E v \in Range(vehicles) :
                  v.id = records[p].vehicleId /\ v.initialOdometer > 0
           /\ \E o \in Range(result.value) : o.id = records[p].id /\ o.distanceDriven = Num(0)

C6_NeverThrows ==
    ~result.threw /\ ~resultP.threw /\ ~result2.threw

\* C7: every division has a non-zero divisor and every one of the six fields
\* recalculateRecords writes is a finite number.
C7_FiniteOutputs ==
    Returned =>
        /\ \A g \in Range(groupKeys(records)) :
               0 \notin divisors(sorted(vehicleGroups(records, g)), capacityOf(vehicles, g))
        /\ \A o \in Range(result.value) :
               /\ isFinite(o.totalCost)
               /\ isFinite(o.durationMinutes)
               /\ isFinite(o.theoreticalEnergy)
               /\ isFinite(o.efficiencyLossPct)
               /\ isFinite(o.distanceDriven)
               /\ isFinite(o.energyConsumption)

\* C8: recalculateRecords changes only the six recomputed fields: every other
\* field of every record is the same in input and output, and the call leaves
\* the input list and its records as they were.
C8_Frame ==
    /\ [](Returned =>
            \A o \in Range(result.value) :
                \E r \in Range(records) : RawEqual(o, r))
    /\ [][records' = records /\ vehicles' = vehicles]_vars

C8_Witness ==
    /\ Returned
    /\ \E o \in Range(result.value) :
           \E r \in Range(records) : RawEqual(o, r) /\ ~DerivedEqual(o, r)

----------------------------------------------------------------------------
(* Properties of syncWithSupabase *)

Failed == syncResult.returned /\ ~syncResult.success /\ ~syncResult.hasData

Blank(chars) == \A i \in 1..Len(chars) : chars[i] = " "

\* a local vehicle whose licensePlate is missing, empty or whitespace only
SomePlateMissing ==
    \E v \in Range(localState.vehicles) :
        v.licensePlate.k = "undefined" \/ Blank(v.licensePlate.s)

\* C9: when a local vehicle has a missing, empty or whitespace-only
\* licensePlate, syncWithSupabase issues no remote operation and returns
\* failure with no data.
C9_NoPlateNoRemoteCall ==
    SomePlateMissing =>
        /\ ops = <<>>
        /\ spc \in {"idle", "returned"}
        /\ syncResult.returned => Failed

C9_Witness ==
    /\ SomePlateMissing
    /\ ~configMissing(config)
    /\ \E v \in Range(localState.vehicles) :
           v.licensePlate.k = "string" /\ v.licensePlate.s # <<>> /\ Blank(v.licensePlate.s)
    /\ localState.deletedRecordIds # <<>>
    /\ Failed
    /\ syncResult.message = "MissingPlate"

\* C10: when config.apiKey or config.projectUrl is empty, syncWithSupabase
\* issues no remote operation and returns failure with no data, whatever the
\* local state.
C10_NoConfigNoRemoteCall ==
    (config.apiKey = "" \/ config.projectUrl = "") =>
        /\ ops = <<>>
        /\ spc \in {"idle", "returned"}
        /\ syncResult.returned => Failed

C10_Witness ==
    /\ config.apiKey = "key"
    /\ config.projectUrl = ""
    /\ ~SomePlateMissing
    /\ localState.vehicles # <<>>
    /\ localState.deletedRecordIds # <<>>
    /\ Failed
    /\ syncResult.message = "ConfigMissing"

----------------------------------------------------------------------------
(* Properties of the application and its syncs *)

\* a step of a call of syncWithSupabase or of its caller: the entry, a
\* request, the return, the caller's handling of the result
CallStep == spc' # spc \/ caller' # caller

\* C11: a sync that fails (at a pre-check, the delete, an upsert or a select)
\* returns no data, and only a successful sync returns data, with both
\* deletion queues empty; no step of a call changes the local vehicles,
\* records, deletedRecordIds or deletedVehicleIds, except the caller's
\* handling of a successful result.
C11_FailedSyncLeavesLocalState ==
    /\ [](syncResult.returned =>
             /\ ~syncResult.success => ~syncResult.hasData
             /\ syncResult.hasData =>
                    /\ syncResult.success
                    /\ syncResult.data.deletedRecordIds = <<>>
                    /\ syncResult.data.deletedVehicleIds = <<>>)
    /\ [][(CallStep /\ ~(spc = "returned" /\ syncResult.success))
              => snapshot(state)' = snapshot(state)]_vars

C11_Witness ==
    /\ caller = "none"
    /\ spc = "none"
    /\ Failed
    /\ syncResult.message = "RecordUploadFailed"
    /\ localState.deletedRecordIds # <<>>
    /\ snapshot(state) = localState

Succeeded == syncResult.returned /\ syncResult.success /\ syncResult.hasData

\* C12: in a successful sync every remote vehicle row has a merged vehicle;
\* the merged vehicle of a plate carries the id of every local vehicle that
\* has this plate, and a minted id only when no local vehicle has the plate.
C12_MergeKeepsLocalId ==
    Succeeded =>
        /\ \A row \in Range(cloudVehicles) :
               \E mv \in Range(syncResult.data.vehicles) : mv.licensePlate = Str(row.licensePlate)
        /\ \A mv \in Range(syncResult.data.vehicles) :
               /\ \A lv \in Range(localState.vehicles) :
                      lv.licensePlate = mv.licensePlate => mv.id = lv.id
               /\ mv.id \in Range(MintedIds) =>
                      \A lv \in Range(localState.vehicles) : lv.licensePlate # mv.licensePlate

\* the calls of syncWithSupabase that were entered and have not returned
inFlight ==
    (IF caller # "none" /\ spc # "returned" THEN 1 ELSE 0) + Len(pending)

\* C13: over the auto-sync timer, the header button and the Settings button,
\* at most one call of syncWithSupabase is in flight at any time.
C13_OneSyncInFlight ==
    inFlight <= 1

Ids(seq) == {seq[i].id : i \in 1..Len(seq)}

\* the caller's handling of the result of the call the sync variables follow
ReturnStep == caller # "none" /\ spc = "returned" /\ spc' # "returned"

\* C14: an id in the local deletedRecordIds stays there in every step, except
\* the handling of a successful sync whose delete step was given that id;
\* and handling the result of a sync that was not given the id does not put
\* a record with that id into the local records.
C14_QueuedUntilFlushed ==
    [][\A id \in Range(state.deletedRecordIds) :
           /\ \/ id \in Range(state.deletedRecordIds)'
              \/ /\ ReturnStep
                 /\ Succeeded
                 /\ id \in Range(localState.deletedRecordIds)
           /\ (ReturnStep /\ id \notin Range(localState.deletedRecordIds)
                   /\ id \notin Ids(state.records))
                  => id \notin Ids(state.records)']_vars

\* the plates of the vehicles whose ids the call was given in deletedVehicleIds
\* (a vehicle keeps its id and plate from the start of the run to its removal)
QueuedPlates ==
    {v.licensePlate : v \in {v \in UNION {Range(vs) : vs \in AppVehicleLists} :
                                 v.id \in Range(localState.deletedVehicleIds)}}

\* C15: when a sync succeeds (and returns deletedVehicleIds = []), the remote
\* vehicles table holds no row of a vehicle whose id the call was given in
\* deletedVehicleIds, and the returned vehicles do not contain that vehicle.
C15_QueuedVehicleDeletedRemotely ==
    Succeeded =>
        \A plate \in QueuedPlates :
            /\ \A row \in Range(cloudVehicles) : Str(row.licensePlate) # plate
            /\ \A mv \in Range(syncResult.data.vehicles) : mv.licensePlate # plate

\* C16: after a successful sync, no record id the call was given in
\* deletedRecordIds is in the remote table charging_records or in the
\* returned records.
C16_DeletedRecordsGone ==
    Succeeded =>
        \A id \in Range(localState.deletedRecordIds) :
            /\ id \notin Ids(cloudRecords)
            /\ id \notin Ids(syncResult.data.records)

\* handleDeleteRecord(id) is the step taken
DeletesRecord(id) ==
    /\ Len(state.deletedRecordIds') = Len(state.deletedRecordIds) + 1
    /\ state.deletedRecordIds'[Len(state.deletedRecordIds')] = id

\* C17: a local record whose vehicle is no longer in the local vehicles (it
\* was removed) is in the local records after every step with the same id
\* and vehicleId, unless the step is the deletion of that very record.
C17_RecordsOfRemovedVehicleStay ==
    [][\A r \in Range(state.records) :
           (r.vehicleId \notin Ids(state.vehicles) /\ ~DeletesRecord(r.id))
               => \E q \in Range(state.records)' :
                      q.id = r.id /\ q.vehicleId = r.vehicleId]_vars

\* one call of syncWithSupabase(config, ls) in which every request succeeds,
\* made at time t against the remote tables c: the tables it leaves and the
\* data it returns
uninterrupted(ls, c, t) ==
    LET afterDelete == deleteIn(c.records, ls.deletedRecordIds)
        vPayload == vehiclePayload(vehiclesToPush(ls, metaOf(c.vehicles, "licensePlate")), t)
        vTable == upsert(c.vehicles, vPayload, "licensePlate")
        rPayload == recordPayload(ls, recordsToPush(ls, metaOf(afterDelete, "id")))
        rTable == upsert(afterDelete, rPayload, "id")
        mvs == mergedVehicles(ls, vTable)
        finalRecords == recalculateRecords(mergedRecords(mvs, rTable), mvs)
    IN  [accepted |-> /\ ~affectsRowTwice(vPayload, "licensePlate")
                      /\ ~affectsRowTwice(rPayload, "id")
                      /\ ~finalRecords.threw,
         remoteVehicles |-> vTable, remoteRecords |-> rTable,
         vehicles |-> mvs, records |-> finalRecords.value]

\* the same four tables, as the call in progress left and returned them
outcome ==
    [accepted |-> TRUE,
     remoteVehicles |-> cloudVehicles, remoteRecords |-> cloudRecords,
     vehicles |-> syncResult.data.vehicles, records |-> syncResult.data.records]

\* the plates of the local vehicles that have no updatedAt and are pushed:
\* their rows carry the time of the call that pushed them
StampedPlates ==
    LET sent == vehiclesToPush(localState, metaOf(remote0.vehicles, "licensePlate"))
    IN  {sent[i].licensePlate.s : i \in {j \in 1..Len(sent) : sent[j].updatedAt = 0}}

unstamped(vs, plateOf(_)) ==
    [i \in 1..Len(vs) |->
        IF plateOf(vs[i]) \in StampedPlates THEN [vs[i] EXCEPT !.updatedAt = 0] ELSE vs[i]]

rowPlate(row) == row.licensePlate

vehiclePlate(v) == v.licensePlate.s

UpToStamps(o) ==
    [o EXCEPT !.remoteVehicles = unstamped(o.remoteVehicles, rowPlate),
              !.vehicles = unstamped(o.vehicles, vehiclePlate)]

RetrySucceeded == Succeeded /\ now > Now

\* C18 as stated: when a sync that failed at a remote step is run again on
\* the same local state and succeeds, the remote vehicles and
\* charging_records and the returned vehicles and records equal those of a
\* sync that succeeded at the first attempt (minted ids are named by the row
\* they are minted for, so equality is equality up to minted ids).
C18_RetryEqualsFirstAttempt ==
    RetrySucceeded => outcome = uninterrupted(localState, remote0, Now)

\* C18, amended: the same, up to the updatedAt of the pushed vehicles that
\* have no updatedAt locally.
C18_RetryEqualsFirstAttemptUpToStamps ==
    RetrySucceeded =>
        UpToStamps(outcome) = UpToStamps(uninterrupted(localState, remote0, Now))

\* the first attempt pushed the vehicles, one of them stamped, and the
\* records, then failed; the second attempt succeeded
C18_Witness ==
    /\ RetrySucceeded
    /\ StampedPlates # {}
    /\ \E row \in Range(cloudVehicles) :
           row.licensePlate \in StampedPlates /\ row.updatedAt = Now
    /\ cloudRecords # remote0.records
    /\ localState.deletedRecordIds # <<>>

\* the returned record q has the non-derived field values of the record r
RecordCarries(q, r) ==
    /\ q.odometer = r.odometer
    /\ q.startTime = r.startTime
    /\ q.endTime = r.endTime
    /\ q.startSoC = r.startSoC
    /\ q.endSoC = r.endSoC
    /\ q.pricePerKwh = r.pricePerKwh
    /\ q.type = r.type
    /\ q.energyCharged = r.energyCharged
    /\ q.totalCost = r.totalCost
    /\ q.createdAt = r.createdAt
    /\ q.updatedAt = r.updatedAt

\* the returned vehicle mv has the field values of v, a local vehicle or a row
VehicleCarries(mv, v) ==
    /\ mv.name = v.name
    /\ mv.batteryCapacity = v.batteryCapacity
    /\ mv.initialOdometer = v.initialOdometer
    /\ mv.updatedAt = v.updatedAt

\* a remote row as the client reads it: Number() of the numeric columns
asRead(row) == [row EXCEPT !.totalCost = NumberOf(row.totalCost)]

\* C19: after a successful sync, for every record id in both the local
\* records and the remote table at the start of the call, the returned record
\* with that id has the non-derived field values of the local copy if the
\* local updatedAt is strictly greater than the remote one, and those of the
\* remote copy otherwise; likewise for every vehicle licensePlate in both.
C19_LastWriteWins ==
    Succeeded =>
        /\ \A r \in Range(localState.records) : \A row \in Range(remote0.records) :
               row.id = r.id =>
                   \E q \in Range(syncResult.data.records) :
                       /\ q.id = r.id
                       /\ IF r.updatedAt > row.updatedAt
                          THEN RecordCarries(q, r)
                          ELSE RecordCarries(q, asRead(row))
        /\ \A v \in Range(localState.vehicles) : \A row \in Range(remote0.vehicles) :
               (~falsy(v.licensePlate) /\ v.licensePlate.s = row.licensePlate) =>
                   \E mv \in Range(syncResult.data.vehicles) :
                       /\ mv.licensePlate = v.licensePlate
                       /\ IF v.updatedAt > row.updatedAt
                          THEN VehicleCarries(mv, v)
                          ELSE VehicleCarries(mv, row)

\* C20: after a successful sync, every vehicle of the local state the call
\* was given is in the returned vehicles with the same id and licensePlate,
\* and every local record whose vehicle is a local vehicle and whose id is
\* not queued for deletion is in the returned records.
C20_NoRegression ==
    Succeeded =>
        /\ \A v \in Range(localState.vehicles) :
               \E mv \in Range(syncResult.data.vehicles) :
                   mv.id = v.id /\ mv.licensePlate = v.licensePlate
        /\ \A r \in Range(localState.records) :
               (/\ r.vehicleId \in Ids(localState.vehicles)
                /\ r.id \notin Range(localState.deletedRecordIds))
                   => r.id \in Ids(syncResult.data.records)

\* C21: no two records of the local records have the same id.
C21_RecordIdsUnique ==
    \A i, j \in 1..Len(state.records) :
        i # j => state.records[i].id # state.records[j].id

\* a record was edited, a sync result was applied after it, and a record
\* with a minted id was added
C21_Witness ==
    /\ state.supabaseConfig.lastSync # 0
    /\ \E r \in Range(state.records) : r.id = 1 /\ r.updatedAt >= FirstEdit
    /\ \E r \in Range(state.records) : r.id >= recordIdAt(FirstEdit)

\* the five derived fields of a record
DerivedFieldsEqual(a, b) ==
    /\ a.durationMinutes = b.durationMinutes
    /\ a.theoreticalEnergy = b.theoreticalEnergy
    /\ a.efficiencyLossPct = b.efficiencyLossPct
    /\ a.distanceDriven = b.distanceDriven
    /\ a.energyConsumption = b.energyConsumption

\* rs is what the engine makes of rs for the vehicles vs, on the derived fields
FixedPoint(rs, vs) ==
    LET again == recalculateRecords(rs, vs)
    IN  /\ ~again.threw
        /\ \A r \in Range(rs) :
               \E q \in Range(again.value) : q.id = r.id /\ DerivedFieldsEqual(q, r)

\* a record save, a record delete or a CSV import wrote the records, or a
\* successful sync result was applied
RecordsWritten ==
    \/ state.records' # state.records
    \/ ReturnStep /\ syncResult.success

\* C22: right after a record save, a record delete, a CSV import and an
\* applied successful sync result, the stored records are a fixed point of
\* recalculateRecords for the stored vehicles, on the derived fields.
C22_StoredRecordsReconciled ==
    [][RecordsWritten => LET rs == state.records'
                             vs == state.vehicles'
                         IN  FixedPoint(rs, vs)]_vars

----------------------------------------------------------------------------
(* Properties of the engine's fields, one by one *)

\* the input record an output record was made from (ids are input positions)
inputOf(o) == records[o.id]

FinitePositive(x) == x.k = "number" /\ x.v > 0

\* a value rounded to 2 decimals: a number is rounded, NaN and Infinity stay
rounded2(x) == IF x.k = "number" THEN Num(toFixed2(x.v, Milli)) ELSE x

\* C23: in the output, a record whose input totalCost is not a finite
\* positive number and whose energyCharged and pricePerKwh are positive has
\* totalCost = energyCharged * pricePerKwh rounded to 2 decimals; every other
\* record has its input totalCost rounded to 2 decimals.
C23_CostRepair ==
    Returned =>
        \A o \in Range(result.value) :
            LET r == inputOf(o)
            IN  IF /\ ~FinitePositive(r.totalCost)
                   /\ r.energyCharged > 0
                   /\ r.pricePerKwh > 0
                THEN o.totalCost = Num(toFixed2(r.energyCharged * r.pricePerKwh, Milli * Milli))
                ELSE o.totalCost = rounded2(r.totalCost)

\* C24: in the output, a record whose vehicle has capacity > 0 and whose
\* endSoC >= startSoC has theoreticalEnergy = capacity * (endSoC - startSoC)
\* / 100 rounded to 2 decimals, and efficiencyLossPct = (energyCharged -
\* theoreticalEnergy) / energyCharged * 100 rounded to 2 decimals when
\* energyCharged > 0 and 0 otherwise; every other record keeps its input
\* theoreticalEnergy and efficiencyLossPct.
C24_TheoreticalEnergyAndLoss ==
    Returned =>
        \A o \in Range(result.value) :
            LET r == inputOf(o)
                capacity == capacityOf(vehicles, r.vehicleId)
                theoretical == toFixed2(capacity * (r.endSoC - r.startSoC), 100)
            IN  IF capacity > 0 /\ r.endSoC >= r.startSoC
                THEN /\ o.theoreticalEnergy = Num(theoretical)
                     /\ o.efficiencyLossPct =
                            IF r.energyCharged > 0
                            THEN Num(toFixed2(100 * (r.energyCharged - theoretical),
                                              r.energyCharged))
                            ELSE Num(0)
                ELSE /\ o.theoreticalEnergy = r.theoreticalEnergy
                     /\ o.efficiencyLossPct = r.efficiencyLossPct

\* capacity 60, 20% to 80%, 40 kWh charged: 36.00 kWh and 10.00%; a level
\* state of charge with nothing charged: 0 and 0; and a record left alone
C24_Witness ==
    /\ Returned
    /\ \E o \in Range(result.value) :
           /\ inputOf(o).theoreticalEnergy = Num(1230)
           /\ o.theoreticalEnergy = Num(36000)
           /\ o.efficiencyLossPct = Num(10000)
    /\ \E o \in Range(result.value) :
           /\ inputOf(o).endSoC = inputOf(o).startSoC
           /\ inputOf(o).energyCharged = 0
           /\ inputOf(o).efficiencyLossPct = Num(-5000)
           /\ o.theoreticalEnergy = Num(0)
           /\ o.efficiencyLossPct = Num(0)
    /\ \E o \in Range(result.value) :
           /\ capacityOf(vehicles, o.vehicleId) = 0
           /\ o.theoreticalEnergy = Num(1230)

\* records[q] stands before records[p] in their vehicle's timeline: it starts
\* earlier, or at the same instant and earlier in the input
Before(q, p) ==
    /\ q # p
    /\ records[q].vehicleId = records[p].vehicleId
    /\ \/ records[q].startTime < records[p].startTime
       \/ records[q].startTime = records[p].startTime /\ q < p

\* the position of the record directly before records[p] in its timeline
Predecessor(p) ==
    CHOOSE q \in 1..Len(records) :
        /\ Before(q, p)
        /\ \A q2 \in 1..Len(records) : Before(q2, p) => (q2 = q \/ Before(q2, q))

\* C25: in the output, a record with a predecessor prev in its vehicle's
\* timeline has distanceDriven = max(0, odometer - prev.odometer), and
\* energyConsumption = (capacity * (prev.endSoC - startSoC) / 100) /
\* distanceDriven * 100 rounded to 2 decimals when distanceDriven,
\* prev.endSoC - startSoC and capacity are positive, and 0 otherwise; prev is
\* the record directly before it, never an earlier one.
C25_DistanceAndConsumption ==
    Returned =>
        \A o \in Range(result.value) :
            (\E q \in 1..Len(records) : Before(q, o.id)) =>
                LET r == inputOf(o)
                    prev == records[Predecessor(o.id)]
                    capacity == capacityOf(vehicles, r.vehicleId)
                    distance == Max(0, r.odometer - prev.odometer)
                    socUsed == prev.endSoC - r.startSoC
                IN  /\ o.distanceDriven = Num(distance)
                    /\ o.energyConsumption =
                           IF distance > 0 /\ socUsed > 0 /\ capacity > 0
                           THEN Num(toFixed2(capacity * socUsed * 100, 100 * distance))
                           ELSE Num(0)

\* the third record of a timeline, 450 km after the second and 150 km after
\* the first, with a positive consumption
C25_Witness ==
    /\ Returned
    /\ \E o \in Range(result.value) :
           /\ \E q \in 1..Len(records) : Before(q, o.id)
           /\ \E q \in 1..Len(records) :
                  /\ Before(q, Predecessor(o.id))
                  /\ inputOf(o).odometer - records[q].odometer = 150
           /\ o.distanceDriven = Num(450)
           /\ o.energyConsumption.v > 0

\* the record's vehicle is in the list with a capacity that is not positive,
\* or the record's state of charge goes down
Malformed(r) ==
    \/ \E v \in Range(vehicles) : v.id = r.vehicleId /\ v.batteryCapacity <= 0
    \/ r.endSoC < r.startSoC

\* C26: on input with a record whose vehicle has batteryCapacity <= 0 or
\* whose endSoC < startSoC the call does not raise, and the output of such a
\* record has theoreticalEnergy = 0 and efficiencyLossPct = 0.
C26_MalformedZeroed ==
    pc # "input" =>
        /\ (\E r \in Range(records) : Malformed(r)) => ~result.threw
        /\ \A o \in Range(result.value) :
               Malformed(inputOf(o)) =>
                   (o.theoreticalEnergy = Num(0) /\ o.efficiencyLossPct = Num(0))

Unknown(r) == \A v \in Range(vehicles) : v.id # r.vehicleId

\* C27: a record whose vehicleId matches no vehicle is in the output, with
\* distanceDriven computed from its predecessor in the timeline of its
\* vehicleId, energyConsumption = 0, and its input theoreticalEnergy and
\* efficiencyLossPct.
C27_UnknownVehicle ==
    Returned =>
        \A p \in 1..Len(records) :
            Unknown(records[p]) =>
                \E o \in Range(result.value) :
                    /\ o.id = p
                    /\ o.distanceDriven =
                           IF \E q \in 1..Len(records) : Before(q, p)
                           THEN Num(Max(0, records[p].odometer
                                             - records[Predecessor(p)].odometer))
                           ELSE Num(0)
                    /\ o.energyConsumption = Num(0)
                    /\ o.theoreticalEnergy = records[p].theoreticalEnergy
                    /\ o.efficiencyLossPct = records[p].efficiencyLossPct

\* a record without a vehicle, driven on from a predecessor that ended at a
\* higher state of charge than it starts with, and one that keeps stale values
C27_Witness ==
    /\ Returned
    /\ \E o \in Range(result.value) :
           /\ Unknown(o)
           /\ \E q \in 1..Len(records) : Before(q, o.id)
           /\ records[Predecessor(o.id)].endSoC > o.startSoC
           /\ o.distanceDriven.v > 0
           /\ o.energyConsumption = Num(0)
    /\ \E o \in Range(result.value) :
           /\ Unknown(o)
           /\ o.endSoC >= o.startSoC
           /\ o.theoreticalEnergy = Num(1230)
           /\ o.efficiencyLossPct = Num(-5000)

\* C28: for every vehicleId A, the records of A come out of
\* recalculateRecords(R, V) with the same fields as out of
\* recalculateRecords(R restricted to vehicleId = A, V).
C28_TimelinesIndependent ==
    pc # "input" =>
        \A A \in Range(groupKeys(records)) :
            LET alone == recalculateRecords(vehicleGroups(records, A), vehicles)
            IN  ~alone.threw =>
                    /\ ~result.threw
                    /\ \A o \in Range(alone.value) : o \in Range(result.value)

\* C29: in the output, a record with startTime and endTime has
\* durationMinutes = max(0, round((endTime - startTime) / 60000)), which is 0
\* when endTime is before startTime; a record with no endTime keeps its input
\* durationMinutes.
C29_Duration ==
    Returned =>
        \A o \in Range(result.value) :
            LET r == inputOf(o)
                minutes == MathRound((r.endTime - r.startTime) * MsPerTick, MsPerMinute)
            IN  IF r.startTime # NoTime /\ r.endTime # NoTime
                THEN /\ o.durationMinutes = Num(Max(0, minutes))
                     /\ r.endTime < r.startTime => o.durationMinutes = Num(0)
                ELSE o.durationMinutes = r.durationMinutes

\* a stale duration replaced by 2 minutes (90 s), a record that ends a minute
\* before it starts, and a record without endTime
C29_Witness ==
    /\ Returned
    /\ \E o \in Range(result.value) :
           inputOf(o).durationMinutes = Num(7) /\ o.durationMinutes = Num(2)
    /\ \E o \in Range(result.value) :
           /\ (o.endTime - o.startTime) * MsPerTick = -MsPerMinute
           /\ o.durationMinutes = Num(0)
    /\ \E o \in Range(result.value) :
           o.endTime = NoTime /\ o.durationMinutes = undefined

----------------------------------------------------------------------------
(* The order of the remote operations of one call *)

\* the step of the protocol a remote operation belongs to
StepOf(o) ==
    IF o.op = "delete" THEN "deleteRecords"
    ELSE IF o.op = "upsert"
         THEN (IF o.table = "users" THEN "upsertUser"
               ELSE IF o.table = "vehicles" THEN "upsertVehicles" ELSE "upsertRecords")
         ELSE IF o.keys = <<"*">>
              THEN (IF o.table = "vehicles" THEN "selectVehicles" ELSE "selectRecords")
              ELSE (IF o.table = "vehicles" THEN "selectVehiclesMeta" ELSE "selectRecordsMeta")

Steps == [i \in 1..Len(ops) |-> StepOf(ops[i])]

FixedSteps ==
    <<"deleteRecords", "upsertUser", "selectVehiclesMeta", "upsertVehicles",
      "selectRecordsMeta", "upsertRecords", "selectVehicles", "selectRecords">>

IsPrefix(a, b) == Len(a) <= Len(b) /\ a = SubSeq(b, 1, Len(a))

\* the step that failed, by the message of the failure
FailedAt ==
    [DeleteRecordsFailed |-> "deleteRecords", UserFailed |-> "upsertUser",
     VehicleMetaFailed |-> "selectVehiclesMeta", VehicleUploadFailed |-> "upsertVehicles",
     RecordMetaFailed |-> "selectRecordsMeta", RecordUploadFailed |-> "upsertRecords",
     FetchVehiclesFailed |-> "selectVehicles", FetchRecordsFailed |-> "selectRecords"]

\* an operation is issued only while the call has not returned, one at a
\* time; the operation that failed is the last one; the pull follows the pushes
OneByOne ==
    /\ [](\A i, j \in 1..Len(Steps) :
              (/\ Steps[i] \in {"selectVehicles", "selectRecords"}
               /\ Steps[j] \in {"upsertUser", "upsertVehicles", "upsertRecords"}) => j < i)
    /\ []((syncResult.returned /\ syncResult.message \in DOMAIN FailedAt) =>
              (ops # <<>> /\ Steps[Len(ops)] = FailedAt[syncResult.message]))
    /\ [][(ops' # ops /\ ops' # <<>>) =>
              (/\ ~syncResult.returned
               /\ ~syncResult.returned'
                    \/ (~syncResult.success' /\ syncResult.message' \in DOMAIN FailedAt)
                    \/ StepOf(ops'[Len(ops')]) = "selectRecords"
               /\ Len(ops') = Len(ops) + 1
               /\ SubSeq(ops', 1, Len(ops)) = ops)]_vars

\* C30 as stated: the operations issued are the first steps of the fixed
\* sequence of eight, one after the other, the failing one last, the pull
\* after the pushes.
C30_OpsPrefixOfFixedSequence ==
    /\ [](IsPrefix(Steps, FixedSteps))
    /\ OneByOne

\* the step has something to send in this call
Due(step) ==
    CASE step = "deleteRecords" -> localState.deletedRecordIds # <<>>
      [] step = "upsertVehicles" ->
             vehiclesToPush(localState, frame.cloudVehiclesMeta) # <<>>
      [] step = "upsertRecords" ->
             recordPayload(localState, recordsToPush(localState, frame.cloudRecordsMeta)) # <<>>
      [] OTHER -> TRUE

\* C30, amended: the same, of the fixed sequence without the steps that have
\* nothing to send: the delete when no record id is queued, the vehicle
\* upsert when no vehicle is to be pushed, the record upsert when no record
\* is to be pushed.
C30_OpsPrefixOfDueSteps ==
    /\ [](IsPrefix(Steps, SelectSeq(FixedSteps, Due)))
    /\ OneByOne

\* no record id queued, the vehicle upsert fails: three operations
C30_Witness ==
    /\ Failed
    /\ syncResult.message = "VehicleUploadFailed"
    /\ localState.deletedRecordIds = <<>>
    /\ Steps = <<"upsertUser", "selectVehiclesMeta", "upsertVehicles">>

----------------------------------------------------------------------------
(* The selective push *)

\* no row of the table has the key, or the row that has it is older than updatedAt
MissingOrOlder(table, col, key, updatedAt) ==
    \/ \A row \in Range(table) : row[col] # key
    \/ \E row \in Range(table) : row[col] = key /\ updatedAt > row.updatedAt

\* the local vehicles that are missing or older in the remote table
NewerVehicles ==
    SelectSeq(localState.vehicles, LAMBDA v :
        MissingOrOlder(cloudVehicles, "licensePlate", v.licensePlate.s, v.updatedAt))

\* the keys of the operation the step has issued
Sent == ops'[Len(ops')].keys

\* C31: the vehicles a sync upserts are the local vehicles that have no
\* remote row with their licensePlate, or a remote row with a smaller
\* updatedAt; a vehicle whose remote row is as new or newer, a remote
\* updatedAt of 0 included, is not upserted.
C31_SelectiveVehiclePush ==
    [][/\ (spc = "upsertVehicles" /\ ops' # ops) =>
              Sent = [i \in 1..Len(NewerVehicles) |-> NewerVehicles[i].licensePlate.s]
       /\ (spc = "selectVehiclesMeta" /\ spc' = "selectRecordsMeta") =>
              NewerVehicles = <<>>]_vars

\* the record's owning vehicle is a local vehicle with a licensePlate
OwnerPlated(r) ==
    \E v \in Range(localState.vehicles) : v.id = r.vehicleId /\ ~falsy(v.licensePlate)

\* the local records that are missing or older in the remote table, and
\* whose owning vehicle has a licensePlate
NewerRecords ==
    SelectSeq(localState.records, LAMBDA r :
        MissingOrOlder(cloudRecords, "id", r.id, r.updatedAt) /\ OwnerPlated(r))

\* C32: the records a sync upserts are the local records that have no
\* remote row with their id, or a remote row with a smaller updatedAt, less
\* the records whose owning vehicle has no licensePlate; each row upserted
\* carries the licensePlate of the record's owning local vehicle.
C32_SelectiveRecordPush ==
    [][/\ (spc = "upsertRecords" /\ ops' # ops) =>
              /\ Sent = [i \in 1..Len(NewerRecords) |-> NewerRecords[i].id]
              /\ spc' = "selectVehicles" =>
                     \A r \in Range(localState.records) : \A row \in Range(cloudRecords') :
                         (row.id = r.id /\ \E i \in 1..Len(Sent) : Sent[i] = r.id) =>
                             \E v \in Range(localState.vehicles) :
                                 v.id = r.vehicleId /\ v.licensePlate = Str(row.licensePlate)
       /\ (spc = "selectRecordsMeta" /\ spc' = "selectVehicles") =>
              NewerRecords = <<>>]_vars

----------------------------------------------------------------------------
(* The merge *)

\* the rows the two pulls returned
PulledVehicles == frame.fetchedVehicles

PulledRecords == cloudRecords

\* C33: on a successful sync the returned vehicles are built from the pulled
\* rows alone: one vehicle per row, in the rows' order, with the row's
\* licensePlate, name, batteryCapacity, initialOdometer and updatedAt, and
\* no vehicle whose licensePlate no pulled row has.
C33_VehiclesFromRemoteRows ==
    Succeeded =>
        LET mvs == syncResult.data.vehicles
        IN  /\ Len(mvs) = Len(PulledVehicles)
            /\ \A i \in 1..Len(mvs) :
                   /\ mvs[i].licensePlate = Str(PulledVehicles[i].licensePlate)
                   /\ mvs[i].name = PulledVehicles[i].name
                   /\ mvs[i].batteryCapacity = PulledVehicles[i].batteryCapacity
                   /\ mvs[i].initialOdometer = PulledVehicles[i].initialOdometer
                   /\ mvs[i].updatedAt = PulledVehicles[i].updatedAt
            /\ \A mv \in Range(mvs) :
                   \E row \in Range(PulledVehicles) : mv.licensePlate = Str(row.licensePlate)

\* a local vehicle comes back with the remote row's newer name and
\* capacity, a local vehicle without remote row was pushed and comes back
C33_Witness ==
    /\ Succeeded
    /\ Len(syncResult.data.vehicles) = 2
    /\ \E mv \in Range(syncResult.data.vehicles) : \E v \in Range(localState.vehicles) :
           /\ mv.licensePlate = v.licensePlate
           /\ mv.id = v.id
           /\ mv.name # v.name
           /\ mv.batteryCapacity # v.batteryCapacity

\* C34: on a successful sync every returned record comes from a pulled row
\* and has the id of the returned vehicle that has the row's licensePlate; a
\* pulled row whose licensePlate no returned vehicle has is left out; so
\* every returned record belongs to a returned vehicle.
C34_RecordsAttachedByPlate ==
    Succeeded =>
        LET mvs == syncResult.data.vehicles
            mrs == syncResult.data.records
        IN  /\ \A r \in Range(mrs) :
                   \E row \in Range(PulledRecords) : \E mv \in Range(mvs) :
                       /\ row.id = r.id
                       /\ mv.licensePlate = Str(row.licensePlate)
                       /\ r.vehicleId = mv.id
            /\ \A row \in Range(PulledRecords) :
                   (\A mv \in Range(mvs) : mv.licensePlate # Str(row.licensePlate))
                       => row.id \notin Ids(mrs)
            /\ \A r \in Range(mrs) : r.vehicleId \in Ids(mvs)

\* a pulled row is returned as a record of the local vehicle that has its
\* licensePlate, and a pulled row whose licensePlate is null is left out
C34_Witness ==
    /\ Succeeded
    /\ \E r \in Range(syncResult.data.records) : \E v \in Range(localState.vehicles) :
           r.vehicleId = v.id /\ r.id \notin Ids(localState.records)
    /\ \E row \in Range(PulledRecords) :
           row.licensePlate = <<>> /\ row.id \notin Ids(syncResult.data.records)

\* the values the derived columns of a remote row may hold
DerivedColumns ==
    { [durationMinutes |-> null, theoreticalEnergy |-> null, efficiencyLossPct |-> null,
       distanceDriven |-> null, energyConsumption |-> null],
      StaleJunk,
      [durationMinutes |-> Num(1), theoreticalEnergy |-> Num(-2000),
       efficiencyLossPct |-> Num(3000), distanceDriven |-> Num(4),
       energyConsumption |-> null] }

\* the remote tables c with the derived columns of every record row set to d
withDerived(c, d) ==
    [c EXCEPT !.records =
        [i \in 1..Len(c.records) |->
            [c.records[i] EXCEPT !.durationMinutes = d.durationMinutes,
                                 !.theoreticalEnergy = d.theoreticalEnergy,
                                 !.efficiencyLossPct = d.efficiencyLossPct,
                                 !.distanceDriven = d.distanceDriven,
                                 !.energyConsumption = d.energyConsumption]]]

FirstAttemptSucceeded == Succeeded /\ now = Now

\* C35: the records a successful sync returns are those of the same call
\* against remote tables that differ only in the derived columns of
\* charging_records.
C35_DerivedColumnsIgnored ==
    FirstAttemptSucceeded =>
        /\ syncResult.data.records = uninterrupted(localState, remote0, Now).records
        /\ \A d \in DerivedColumns :
               LET other == uninterrupted(localState, withDerived(remote0, d), Now)
               IN  other.accepted /\ other.records = syncResult.data.records

\* a pulled row that no local record replaces has derived columns, and the
\* engine has nothing to compute its duration from
C35_Witness ==
    /\ FirstAttemptSucceeded
    /\ \E row \in Range(remote0.records) : \E r \in Range(syncResult.data.records) :
           /\ row.id = r.id
           /\ row.id \notin Ids(localState.records)
           /\ row.durationMinutes # null
           /\ r.endTime = NoTime

----------------------------------------------------------------------------
(* Edits of a vehicle *)

\* Settings.handleSaveVehicle stored another batteryCapacity for vehicle i
SavesCapacity(i) ==
    /\ events' # events
    /\ Len(state.vehicles') = Len(state.vehicles)
    /\ i \in 1..Len(state.vehicles)
    /\ state.vehicles'[i].id = state.vehicles[i].id
    /\ state.vehicles'[i].batteryCapacity # state.vehicles[i].batteryCapacity

\* C36: right after Settings.handleSaveVehicle has changed a vehicle's
\* batteryCapacity, the stored theoreticalEnergy, efficiencyLossPct and
\* energyConsumption of that vehicle's records are those recalculateRecords
\* gives for the stored records and vehicles.
C36_CapacityChangeReconciled ==
    [][\A i \in 1..Len(state.vehicles) :
           SavesCapacity(i) =>
               LET rs == state.records'
                   vs == state.vehicles'
                   again == recalculateRecords(rs, vs)
               IN  /\ ~again.threw
                   /\ \A r \in Range(rs) :
                          r.vehicleId = vs[i].id =>
                              \E q \in Range(again.value) :
                                  /\ q.id = r.id
                                  /\ q.theoreticalEnergy = r.theoreticalEnergy
                                  /\ q.efficiencyLossPct = r.efficiencyLossPct
                                  /\ q.energyConsumption = r.energyConsumption]_vars

----------------------------------------------------------------------------
(* Edits during a sync *)

\* the stored record r was saved after the call in progress took its snapshot
SavedInFlight(r) ==
    /\ r.updatedAt >= FirstEdit
    /\ \A l \in Range(localState.records) : l.id = r.id => l.updatedAt < r.updatedAt

\* C37: when the successful result of a sync is applied, every record that
\* handleSaveRecord stored while that sync was in flight is still in the
\* local records, with the values that were saved.
C37_SaveDuringSyncKept ==
    [][(ReturnStep /\ syncResult.success) =>
           \A r \in Range(state.records) :
               SavedInFlight(r) =>
                   \E q \in Range(state.records') :
                       q.id = r.id /\ q.updatedAt = r.updatedAt /\ RecordCarries(q, r)]_vars

\* C38: after a successful sync, every record of the local state the call
\* was given whose vehicleId is the id of a local vehicle is in the returned
\* records with that vehicleId, also when the vehicle's licensePlate was
\* edited since the record was last pushed.
C38_RecordsStayWithVehicle ==
    Succeeded =>
        \A r \in Range(localState.records) :
            r.vehicleId \in Ids(localState.vehicles) =>
                \E q \in Range(syncResult.data.records) :
                    q.id = r.id /\ q.vehicleId = r.vehicleId

----------------------------------------------------------------------------
(* Deletions across devices *)

\* device d held the record, deleted it, and a successful sync of d has
\* flushed the deletion
Flushed(d, id) ==
    /\ id \in Ids(DeviceStates[d].records)
    /\ id \notin Ids(devices.states[d].records)
    /\ id \notin Range(devices.states[d].deletedRecordIds)

\* C39: a record deleted on one device and flushed by a successful sync of
\* that device stays deleted: no later step puts a row with its id into
\* charging_records, and no later sync of that device returns it.
C39_DeletedStaysDeleted ==
    [][\A d \in Devices : \A id \in Ids(DeviceStates[d].records) :
           Flushed(d, id) =>
               /\ id \notin Ids(cloudRecords')
               /\ id \notin Ids(devices.states[d].records')]_vars

----------------------------------------------------------------------------
(* Progress of a sync *)

\* C40: isSyncing, set when App starts a sync (auto-sync or header button),
\* is false again later; it is cleared only by the continuation of that
\* call, once syncWithSupabase has resolved, with a success or a failure,
\* and it is cleared in both cases.  So every started call resolves and a
\* later sync can start.
C40_SyncFinishesAndReleases ==
    /\ isSyncing ~> ~isSyncing
    /\ [][/\ (isSyncing /\ ~isSyncing') =>
                 (caller \in {"auto", "header"} /\ spc = "returned" /\ syncResult.returned)
          /\ (caller \in {"auto", "header"} /\ ReturnStep) => ~isSyncing']_vars

\* a call of App has failed at a request and has resolved, the flag still set
C40_Witness ==
    /\ isSyncing
    /\ caller \in {"auto", "header"}
    /\ spc = "returned"
    /\ ~syncResult.success
    /\ ops # <<>>

====
